---- MODULE Spec2Model ----
(***************************************************************************)
(* Verification model of hw_seckill: the retry decorator, the time         *)
(* synchronisation and countdown classes, the cookie manager, the run      *)
(* statistics and the scoped timer.  Each component has its own            *)
(* specification (SpecRetry, SpecTime, ...) over the shared variables.     *)
(***************************************************************************)
EXTENDS Integers, Sequences, FiniteSets, TLC

\* ------------------------------------------------------------------------
\* Bounds of the model (not program constants)
\* ------------------------------------------------------------------------
MaxAttemptsArg == 3
NegAttemptsArg == 1
MaxFailFirst == 4
ClockStart == 1000
MaxClock == 75000
MaxSyncCalls == 1
MaxResyncCalls == 2
MaxWaitCalls == 1
NumThreads == 2
MaxCookies == 2
MaxAttemptRecords == 3
MaxErrorRecords == 1
MaxTimerClock == 6
MaxSetupCalls == 3
MaxCountdowns == 3
MaxDays == 1

VARIABLES
  \* retry(max_attempts, delay, exceptions) wrapper, src/tools/utils.py
  retry_pc, max_attempts, fail_first, exc_in_filter, attempt, call_count,
  last_exception, retry_result, retry_raised, retry_warnings, retry_errors,
  retry_sleeps,
  \* the local clock, int(time.time() * 1000)
  clock,
  \* TimeSync fields and the progress of sync(), src/tools/time_utils.py
  server_timestamp, local_timestamp, time_diff, sync_pc, round_i, samples,
  sync_ret, sync_warnings, server_time_errors, fallback_errors,
  round_kinds, sync_calls,
  \* CountdownTimer field and the progress of wait_until_ready()
  target_time, wait_pc, advance_ms, remaining, branch, status_logged, slept_ms,
  wait_calls,
  \* the cookie file, the CookieManager lock and each thread's call,
  \* src/tools/utils.py
  cookie_file, cookie_lock, ck_pc, ck_op, ck_arg, ck_ret, ck_raised, ck_fd,
  ck_saw, ck_last, ck_stored,
  \* Statistics fields, its lock and each thread's call; the calls completed
  \* since the last start()
  stat_lock, start_time, attempt_count, success, error_count, last_error,
  st_pc, st_op, st_arg, st_tmp, done_attempts, done_errors, success_recorded,
  \* the timer context manager: time.time(), its locals and what it logged
  tm_pc, tm_clock, tm_description, tm_start, tm_exit, tm_log,
  \* Config: the INI file read, app_config and the last operation's outcome, src/config.py
  cfg_pc, cfg_file, app_config, cfg_before, cfg_op, cfg_errors,
  cfg_warnings, cfg_shown, cfg_ret,
  \* ChromeBrowser.setting: its arguments, the options built, the session and what was logged, src/browser/chrome.py
  ch_pc, ch_config, ch_user_data_dir, ch_args, ch_experimental, ch_driver,
  ch_browser, ch_ret, ch_raised, ch_resolves, ch_launches, ch_injections,
  ch_errors, ch_warnings,
  \* loguru's handlers, the logs directory and the last setup_logger call, src/tools/my_logger.py
  lg_sinks, lg_next_id, lg_pc, lg_debug, lg_calls, lg_dir, lg_delivered,
  \* ProgressManager fields, the Progress and Live objects made and the console's live display, src/tools/my_logger.py
  pm_progress, pm_live, pm_task_id, pm_lives, pm_bars, pm_console, pm_op,
  pm_raised, pm_touched,
  \* get_remaining_parts(): the remaining time it read and the parts it returned
  rp_pc, rp_remaining, rp_parts,
  \* is_time_to_start(): the call's progress and the value it returned
  its_pc, its_ret

retryVars == <<retry_pc, max_attempts, fail_first, exc_in_filter, attempt,
               call_count, last_exception, retry_result, retry_raised,
               retry_warnings, retry_errors, retry_sleeps>>

syncVars == <<clock, server_timestamp, local_timestamp, time_diff, sync_pc,
              round_i, samples, sync_ret, sync_warnings, server_time_errors,
              fallback_errors, round_kinds, sync_calls>>

countdownVars == <<target_time, wait_pc, advance_ms, remaining, branch,
                   status_logged, slept_ms, wait_calls>>

cookieVars == <<cookie_file, cookie_lock, ck_pc, ck_op, ck_arg, ck_ret,
                ck_raised, ck_fd, ck_saw, ck_last, ck_stored>>

statVars == <<stat_lock, start_time, attempt_count, success, error_count,
              last_error, st_pc, st_op, st_arg, st_tmp, done_attempts,
              done_errors, success_recorded>>

timerVars == <<tm_pc, tm_clock, tm_description, tm_start, tm_exit, tm_log>>

configVars == <<cfg_pc, cfg_file, app_config, cfg_before, cfg_op, cfg_errors,
                cfg_warnings, cfg_shown, cfg_ret>>

chromeVars == <<ch_pc, ch_config, ch_user_data_dir, ch_args, ch_experimental,
                ch_driver, ch_browser, ch_ret, ch_raised, ch_resolves,
                ch_launches, ch_injections, ch_errors, ch_warnings>>

loggerVars == <<lg_sinks, lg_next_id, lg_pc, lg_debug, lg_calls, lg_dir,
                lg_delivered>>

progressVars == <<pm_progress, pm_live, pm_task_id, pm_lives, pm_bars,
                  pm_console, pm_op, pm_raised, pm_touched>>

partsVars == <<rp_pc, rp_remaining, rp_parts>>

startVars == <<its_pc, its_ret>>

vars == <<retryVars, syncVars, countdownVars, cookieVars, statVars, timerVars,
          configVars, chromeVars, loggerVars, progressVars, partsVars,
          startVars>>

\* what the actions of one component leave alone
notRetryVars == <<syncVars, countdownVars, cookieVars, statVars, timerVars,
                  configVars, chromeVars, loggerVars, progressVars, partsVars,
                  startVars>>
notTimeVars == <<retryVars, cookieVars, statVars, timerVars, configVars,
                 chromeVars, loggerVars, progressVars, partsVars, startVars>>
notCookieVars == <<retryVars, syncVars, countdownVars, statVars, timerVars,
                   configVars, chromeVars, loggerVars, progressVars,
                   partsVars, startVars>>
notStatVars == <<retryVars, syncVars, countdownVars, cookieVars, timerVars,
                 configVars, chromeVars, loggerVars, progressVars, partsVars,
                 startVars>>
notTimerVars == <<retryVars, syncVars, countdownVars, cookieVars, statVars,
                  configVars, chromeVars, loggerVars, progressVars, partsVars,
                  startVars>>
notConfigVars == <<retryVars, syncVars, countdownVars, cookieVars, statVars,
                   timerVars, chromeVars, loggerVars, progressVars, partsVars,
                   startVars>>
notChromeVars == <<retryVars, syncVars, countdownVars, cookieVars, statVars,
                   timerVars, configVars, loggerVars, progressVars, partsVars,
                   startVars>>
notLoggerVars == <<retryVars, syncVars, countdownVars, cookieVars, statVars,
                   timerVars, configVars, chromeVars, progressVars, partsVars,
                   startVars>>
notProgressVars == <<retryVars, syncVars, countdownVars, cookieVars, statVars,
                     timerVars, configVars, chromeVars, loggerVars, partsVars,
                     startVars>>
notPartsVars == <<retryVars, syncVars, countdownVars, cookieVars, statVars,
                  timerVars, configVars, chromeVars, loggerVars, progressVars,
                  startVars>>
notStartVars == <<retryVars, syncVars, countdownVars, cookieVars, statVars,
                  timerVars, configVars, chromeVars, loggerVars, progressVars,
                  partsVars>>

\* ========================================================================
\* retry decorator (src/tools/utils.py:25-50)
\* ========================================================================

\* An exception object: which invocation of the wrapped function raised it
\* (call = 0: not raised by the wrapped function) and its kind.
NoException == [call |-> 0, kind |-> "None"]
TypeErrorOfRaiseNone == [call |-> 0, kind |-> "TypeError"]
FuncException(n, inFilter) ==
  [call |-> n, kind |-> IF inFilter THEN "filtered" ELSE "unfiltered"]

NoValue == "no value"
SuccessValue == "success value"

\* The wrapped function of the claims: raises on its first fail_first calls,
\* then succeeds.
FuncRaises(n) == n <= fail_first

RetryInit ==
  /\ retry_pc = "idle"
  /\ max_attempts = 3
  /\ fail_first = 0
  /\ exc_in_filter = TRUE
  /\ attempt = 0
  /\ call_count = 0
  /\ last_exception = NoException
  /\ retry_result = NoValue
  /\ retry_raised = NoException
  /\ retry_warnings = 0
  /\ retry_errors = 0
  /\ retry_sleeps = 0

\* wrapper(*args, **kwargs) is entered: last_exception = None
RetryCall(n, k, inFilter) ==
  /\ retry_pc \in {"idle", "returned", "raised"}
  /\ max_attempts' = n
  /\ fail_first' = k
  /\ exc_in_filter' = inFilter
  /\ attempt' = 0
  /\ call_count' = 0
  /\ last_exception' = NoException
  /\ retry_result' = NoValue
  /\ retry_raised' = NoException
  /\ retry_warnings' = 0
  /\ retry_errors' = 0
  /\ retry_sleeps' = 0
  /\ retry_pc' = "for"
  /\ UNCHANGED notRetryVars

\* range(1, max_attempts + 1) has a next element after `attempt`
RangeHasNext_OffByOne == attempt < max_attempts - 1
RangeHasNext == attempt < max_attempts

\* `if attempt < max_attempts` inside the except clause
IsNotLastAttempt == attempt < max_attempts

\* for attempt in range(1, max_attempts + 1): ... / raise last_exception
RetryFor ==
  /\ retry_pc = "for"
  /\ IF RangeHasNext
       THEN /\ attempt' = attempt + 1
            /\ retry_pc' = "try"
            /\ UNCHANGED retry_raised
       ELSE \* the loop is exhausted: raise last_exception
            /\ retry_raised' = IF last_exception = NoException
                                 THEN TypeErrorOfRaiseNone
                                 ELSE last_exception
            /\ retry_pc' = "raised"
            /\ UNCHANGED attempt
  /\ UNCHANGED <<max_attempts, fail_first, exc_in_filter, call_count,
                 last_exception, retry_result, retry_warnings, retry_errors,
                 retry_sleeps>>
  /\ UNCHANGED notRetryVars

\* try: return func(*args, **kwargs) / except exceptions as e: ...
RetryTry ==
  /\ retry_pc = "try"
  /\ call_count' = call_count + 1
  /\ IF ~FuncRaises(call_count + 1)
       THEN /\ retry_result' = SuccessValue
            /\ retry_pc' = "returned"
            /\ UNCHANGED <<last_exception, retry_raised, retry_warnings,
                           retry_errors>>
       ELSE IF exc_in_filter
         THEN /\ last_exception' = FuncException(call_count + 1, TRUE)
              /\ IF IsNotLastAttempt
                   THEN /\ retry_warnings' = retry_warnings + 1
                        /\ retry_pc' = "sleep"
                        /\ UNCHANGED retry_errors
                   ELSE /\ retry_errors' = retry_errors + 1
                        /\ retry_pc' = "for"
                        /\ UNCHANGED retry_warnings
              /\ UNCHANGED <<retry_result, retry_raised>>
         ELSE \* not caught by `except exceptions`: propagates at once
              /\ retry_raised' = FuncException(call_count + 1, FALSE)
              /\ retry_pc' = "raised"
              /\ UNCHANGED <<last_exception, retry_result, retry_warnings,
                             retry_errors>>
  /\ UNCHANGED <<max_attempts, fail_first, exc_in_filter, attempt,
                 retry_sleeps>>
  /\ UNCHANGED notRetryVars

\* time.sleep(delay)
RetrySleep ==
  /\ retry_pc = "sleep"
  /\ retry_sleeps' = retry_sleeps + 1
  /\ retry_pc' = "for"
  /\ UNCHANGED <<max_attempts, fail_first, exc_in_filter, attempt,
                 call_count, last_exception, retry_result, retry_raised,
                 retry_warnings, retry_errors>>
  /\ UNCHANGED notRetryVars

RetryNext ==
  \/ \E n \in (-NegAttemptsArg)..MaxAttemptsArg, k \in 0..MaxFailFirst,
        f \in BOOLEAN :
       RetryCall(n, k, f)
  \/ RetryFor
  \/ RetryTry
  \/ RetrySleep

\* ========================================================================
\* Python numbers.  Timestamps are whole milliseconds (int), but
\* latency = (end_ts - start_ts) / 2 is a float that may end in .5: a number
\* is its type and twice its value (v2), which keeps every value exact.
\* ========================================================================
PyNone == [ty |-> "None", v2 |-> 0]
PyInt(n) == [ty |-> "int", v2 |-> 2 * n]
PyFloat(twice) == [ty |-> "float", v2 |-> twice]
ArithType(a, b) == IF a.ty = "float" \/ b.ty = "float" THEN "float" ELSE "int"
PyAdd(a, b) == [ty |-> ArithType(a, b), v2 |-> a.v2 + b.v2]
PySub(a, b) == [ty |-> ArithType(a, b), v2 |-> a.v2 - b.v2]
\* a / 2 (true division: always a float)
PyHalf(a) == PyFloat(a.v2 \div 2)
\* max(a, 0): the first argument is kept unless 0 is strictly greater
PyMaxZero_NoFloor(a) == a
PyMaxZero(a) == IF 0 > a.v2 THEN PyInt(0) ELSE a
\* a // d and a % d for a whole number d > 0 (floor division keeps the type)
PyFloorDiv(a, d) == [ty |-> a.ty, v2 |-> 2 * (a.v2 \div (2 * d))]
PyMod_Whole(a, d) == a
PyMod(a, d) == [ty |-> a.ty, v2 |-> a.v2 % (2 * d)]
\* comparisons with a whole number of milliseconds
PyGt(a, n) == a.v2 > 2 * n
PyLe(a, n) == a.v2 <= 2 * n
\* truthiness of `if server_ts:`
Truthy(a) == a.ty # "None" /\ a.v2 # 0

\* ========================================================================
\* TimeSync (src/tools/time_utils.py:20-134)
\* ========================================================================
SyncRounds == 3
SyncPauseMs == 100

\* (server_ts, local_ts, diff)
Sample(s, l, d) == [server_ts |-> s, local_ts |-> l, diff |-> d]

\* list.sort(key=lambda x: x[2]) is stable: x goes after every element whose
\* diff is not greater
RECURSIVE InsertByDiff(_, _)
InsertByDiff(sorted, x) ==
  IF sorted = <<>> THEN <<x>>
  ELSE IF Head(sorted).diff.v2 <= x.diff.v2
         THEN <<Head(sorted)>> \o InsertByDiff(Tail(sorted), x)
         ELSE <<x>> \o sorted

RECURSIVE SortByDiff(_)
SortByDiff(s) ==
  IF s = <<>> THEN <<>>
  ELSE InsertByDiff(SortByDiff(SubSeq(s, 1, Len(s) - 1)), s[Len(s)])

\* samples[len(samples) // 2] (0-based) of the sorted list
MedianIndex_First(n) == 1
MedianIndex(n) == (n \div 2) + 1
MedianSample(s) == SortByDiff(s)[MedianIndex(Len(s))]

\* self._local_time()
LocalTime == PyInt(clock)

\* get_server_time(): self._local_time() - self._time_diff
GetServerTime == PySub(LocalTime, time_diff)

TimeSyncInit ==
  /\ clock = ClockStart
  /\ server_timestamp = PyNone
  /\ local_timestamp = PyNone
  /\ time_diff = PyInt(0)
  /\ sync_pc = "idle"
  /\ round_i = 0
  /\ samples = <<>>
  /\ sync_ret = Sample(PyNone, PyNone, PyNone)
  /\ sync_warnings = 0
  /\ server_time_errors = 0
  /\ fallback_errors = 0
  /\ round_kinds = <<>>
  /\ sync_calls = 0

\* sync() is entered: samples = [] (limit: the calls the model follows)
SyncEnter(limit) ==
  /\ sync_pc \in {"idle", "returned"}
  /\ wait_pc \in {"idle", "returned", "raised"}
  /\ sync_calls < limit
  /\ sync_calls' = sync_calls + 1
  /\ sync_pc' = "round"
  /\ round_i' = 0
  /\ samples' = <<>>
  /\ sync_ret' = Sample(PyNone, PyNone, PyNone)
  /\ sync_warnings' = 0
  /\ server_time_errors' = 0
  /\ fallback_errors' = 0
  /\ round_kinds' = <<>>
  /\ UNCHANGED <<clock, server_timestamp, local_timestamp, time_diff>>
  /\ UNCHANGED countdownVars
  /\ UNCHANGED notTimeVars

SyncCall == SyncEnter(MaxSyncCalls)

\* sync() called again on the same TimeSync object
ResyncCall == SyncEnter(MaxResyncCalls)

\* _server_time(): what the GET yields.  "raise": the request or the JSON
\* decoding raises (logged, None); "not_ok": response.ok is false (None);
\* "no_field": the body has no serverTimeMs (None); "text": serverTimeMs is
\* a non-numeric string; "ok": serverTimeMs is the whole number `value`.
ServerTime(kind, value) ==
  CASE kind = "ok" -> PyInt(value)
    [] kind = "text" -> [ty |-> "str", v2 |-> 1]
    [] OTHER -> PyNone

\* one pass of the body of `for i in range(3)` up to time.sleep(0.1)
SyncRound(latency, kind, value) ==
  /\ sync_pc = "round"
  /\ round_i < SyncRounds
  /\ clock + latency <= MaxClock
  /\ clock' = clock + latency
  /\ round_kinds' = Append(round_kinds, kind)
  /\ server_time_errors' = server_time_errors + (IF kind = "raise" THEN 1 ELSE 0)
  /\ LET start_ts == PyInt(clock)
         server_ts == ServerTime(kind, value)
         end_ts == PyInt(clock + latency)
         lat == PyHalf(PySub(end_ts, start_ts))
         local_ts == PyAdd(start_ts, lat)
         diff == PySub(local_ts, server_ts)
     IN  IF ~Truthy(server_ts)
           THEN UNCHANGED <<samples, sync_warnings>>
           ELSE IF server_ts.ty = "str"
             THEN \* float - str raises TypeError, caught by sync()
                  /\ sync_warnings' = sync_warnings + 1
                  /\ UNCHANGED samples
             ELSE /\ samples' = Append(samples, Sample(server_ts, local_ts, diff))
                  /\ UNCHANGED sync_warnings
  /\ sync_pc' = "sleep"
  /\ UNCHANGED <<server_timestamp, local_timestamp, time_diff, round_i,
                 sync_ret, fallback_errors, sync_calls>>
  /\ UNCHANGED countdownVars
  /\ UNCHANGED notTimeVars

\* time.sleep(0.1) and the next element of range(3)
SyncSleep ==
  /\ sync_pc = "sleep"
  /\ clock + SyncPauseMs <= MaxClock
  /\ clock' = clock + SyncPauseMs
  /\ round_i' = round_i + 1
  /\ sync_pc' = "round"
  /\ UNCHANGED <<server_timestamp, local_timestamp, time_diff, samples,
                 sync_ret, sync_warnings, server_time_errors, fallback_errors,
                 round_kinds, sync_calls>>
  /\ UNCHANGED countdownVars
  /\ UNCHANGED notTimeVars

\* the degraded return value: local_ts = self._local_time();
\* return local_ts, local_ts, 0
FallbackTriple_Stale == Sample(server_timestamp, local_timestamp, time_diff)
FallbackTriple == Sample(LocalTime, LocalTime, PyInt(0))

\* after the loop: the degraded return, or samples.sort(...) and the median
\* sample is adopted
SyncFinish ==
  /\ sync_pc = "round"
  /\ round_i >= SyncRounds
  /\ IF samples = <<>>
       THEN /\ fallback_errors' = fallback_errors + 1
            /\ sync_ret' = FallbackTriple
            /\ UNCHANGED <<server_timestamp, local_timestamp, time_diff, samples>>
       ELSE LET median_sample == MedianSample(samples)
            IN  /\ samples' = SortByDiff(samples)
                /\ server_timestamp' = median_sample.server_ts
                /\ local_timestamp' = median_sample.local_ts
                /\ time_diff' = median_sample.diff
                /\ sync_ret' = Sample(median_sample.server_ts,
                                      median_sample.local_ts,
                                      median_sample.diff)
                /\ UNCHANGED fallback_errors
  /\ sync_pc' = "returned"
  /\ UNCHANGED <<clock, round_i, sync_warnings, server_time_errors,
                 round_kinds, sync_calls>>
  /\ UNCHANGED countdownVars
  /\ UNCHANGED notTimeVars

\* ========================================================================
\* CountdownTimer (src/tools/time_utils.py:137-222)
\* ========================================================================
TierMinuteMs == 60000
TierTenSecondsMs == 10000
TierSecondMs == 1000
SleepMinuteTierMs == 10000
SleepTenSecondsTierMs == 1000
SleepSecondTierMs == 100
SleepSpinMs == 1
DefaultAdvanceMs == 100
MsPerDay == 86400000
MsPerHour == 3600000
MsPerMinute == 60000
MsPerSecond == 1000

\* get_remaining_ms(); target_time holds int(target_time.timestamp() * 1000)
GetRemainingMs ==
  IF target_time = PyNone
    THEN PyInt(0)
    ELSE PyMaxZero(PySub(target_time, GetServerTime))

\* get_remaining_parts() of a remaining time r
GetRemainingParts(r) ==
  LET days == PyFloorDiv(r, MsPerDay)
      r1 == PyMod(r, MsPerDay)
      hours == PyFloorDiv(r1, MsPerHour)
      r2 == PyMod(r1, MsPerHour)
      minutes == PyFloorDiv(r2, MsPerMinute)
      r3 == PyMod(r2, MsPerMinute)
      seconds == PyFloorDiv(r3, MsPerSecond)
      milliseconds == PyMod(r3, MsPerSecond)
  IN  [days |-> days, hours |-> hours, minutes |-> minutes,
       seconds |-> seconds, milliseconds |-> milliseconds]

\* format_remaining(): the format codes 02d and 03d accept an int only, so a
\* float part raises ValueError; otherwise the parts that are shown, in order
FormatRemaining(r) ==
  LET p == GetRemainingParts(r)
      shown == (IF p.days.v2 > 0 THEN <<"days">> ELSE <<>>)
               \o (IF p.hours.v2 > 0 \/ p.days.v2 > 0 THEN <<"hours">> ELSE <<>>)
               \o <<"minutes", "seconds", "milliseconds">>
  IN  [raises |-> \E i \in 1..Len(shown) :
                     shown[i] # "days" /\ p[shown[i]].ty = "float",
       text |-> [i \in 1..Len(shown) |-> <<p[shown[i]].v2 \div 2, shown[i]>>]]

\* is_time_to_start()
IsTimeToStart == GetRemainingMs.v2 <= 0

\* the branch of wait_until_ready taken for a remaining time r
WaitBranch(r, adv) ==
  IF PyLe(r, adv) THEN "break"
  ELSE IF PyGt(r, TierMinuteMs) THEN "minute"
  ELSE IF PyGt(r, TierTenSecondsMs) THEN "ten_seconds"
  ELSE IF PyGt(r, TierSecondMs) THEN "second"
  ELSE "spin"

\* the time.sleep of a branch, in milliseconds
BranchSleepMs(b) ==
  CASE b = "minute" -> SleepMinuteTierMs
    [] b = "ten_seconds" -> SleepTenSecondsTierMs
    [] b = "second" -> SleepSecondTierMs
    [] OTHER -> SleepSpinMs

CountdownInit ==
  /\ target_time = PyNone
  /\ wait_pc = "idle"
  /\ advance_ms = DefaultAdvanceMs
  /\ remaining = PyInt(0)
  /\ branch = "none"
  /\ status_logged = FALSE
  /\ slept_ms = 0
  /\ wait_calls = 0

TimerIdle == sync_pc \in {"idle", "returned"} /\ wait_pc \in {"idle", "returned", "raised"}

\* set_target(target_time)
SetTarget(t) ==
  /\ TimerIdle
  /\ target_time' = PyInt(t)
  /\ UNCHANGED <<wait_pc, advance_ms, remaining, branch, status_logged, slept_ms>>
  /\ UNCHANGED syncVars
  /\ UNCHANGED wait_calls
  /\ UNCHANGED notTimeVars

\* wait_until_ready(advance_ms) is entered
WaitCall(adv) ==
  /\ TimerIdle
  /\ wait_calls < MaxWaitCalls
  /\ wait_calls' = wait_calls + 1
  /\ wait_pc' = "loop"
  /\ advance_ms' = adv
  /\ remaining' = PyInt(0)
  /\ branch' = "none"
  /\ status_logged' = FALSE
  /\ slept_ms' = 0
  /\ UNCHANGED target_time
  /\ UNCHANGED syncVars
  /\ UNCHANGED notTimeVars

\* remaining = self.get_remaining_ms() and the if/elif chain
WaitIter ==
  /\ wait_pc = "loop"
  /\ remaining' = GetRemainingMs
  /\ branch' = WaitBranch(GetRemainingMs, advance_ms)
  /\ status_logged' = FALSE
  /\ slept_ms' = 0
  /\ wait_pc' = CASE branch' = "break" -> "returned"
                  [] branch' = "spin" -> "sleep"
                  [] OTHER -> "log"
  /\ UNCHANGED <<target_time, advance_ms>>
  /\ UNCHANGED syncVars
  /\ UNCHANGED wait_calls
  /\ UNCHANGED notTimeVars

\* logger.info(f"...{self.format_remaining()}")
WaitLog ==
  /\ wait_pc = "log"
  /\ IF FormatRemaining(GetRemainingMs).raises
       THEN /\ wait_pc' = "raised"
            /\ UNCHANGED status_logged
       ELSE /\ wait_pc' = "sleep"
            /\ status_logged' = TRUE
  /\ UNCHANGED <<target_time, advance_ms, remaining, branch, slept_ms>>
  /\ UNCHANGED syncVars
  /\ UNCHANGED wait_calls
  /\ UNCHANGED notTimeVars

\* time.sleep(...) of the branch; the clock moves on by the time slept
WaitSleep ==
  /\ wait_pc = "sleep"
  /\ clock + BranchSleepMs(branch) <= MaxClock
  /\ clock' = clock + BranchSleepMs(branch)
  /\ slept_ms' = BranchSleepMs(branch)
  /\ wait_pc' = "loop"
  /\ UNCHANGED <<target_time, advance_ms, remaining, branch, status_logged>>
  /\ UNCHANGED <<server_timestamp, local_timestamp, time_diff, sync_pc, round_i,
                 samples, sync_ret, sync_warnings, server_time_errors,
                 fallback_errors, round_kinds, sync_calls>>
  /\ UNCHANGED wait_calls
  /\ UNCHANGED notTimeVars

\* sync() and the queries, with every kind of response
SyncNext ==
  \/ SyncCall
  \/ \E latency \in {0, 3}, kind \in {"raise", "not_ok", "no_field", "text"} :
       SyncRound(latency, kind, 0)
  \/ \E latency \in {0, 3}, lag \in {-50, 10, 1000} :
       SyncRound(latency, "ok", clock - lag)
  \/ SyncSleep
  \/ SyncFinish

\* sync() called several times, each round failing or succeeding
ResyncNext ==
  \/ ResyncCall
  \/ SyncRound(0, "raise", 0)
  \/ \E lag \in {-50, 10} : SyncRound(3, "ok", clock - lag)
  \/ SyncSleep
  \/ SyncFinish

\* the countdown, after no sync() or a sync() whose rounds fail or succeed
CountdownNext ==
  \/ SyncCall
  \/ SyncRound(0, "raise", 0)
  \/ SyncRound(3, "ok", clock - 10)
  \/ SyncSleep
  \/ SyncFinish
  \/ \E t \in {500, 2000, 73000} : SetTarget(t)
  \/ \E adv \in {0, DefaultAdvanceMs, 61000} : WaitCall(adv)
  \/ WaitIter
  \/ WaitLog
  \/ WaitSleep


\* ========================================================================
\* CookieManager (src/tools/utils.py:100-158)
\* ========================================================================
Threads == 1..NumThreads
NoThread == 0

\* A cookie map is a list of key/value pairs in insertion order; a value is
\* a Python str, bool or int.
Pair(k, v) == [k |-> k, v |-> v]
PyStr(x) == [t |-> "str", s |-> x]
PyBool(x) == [t |-> "bool", s |-> x]
PyNum(x) == [t |-> "int", s |-> x]

CookieMaps ==
  { <<Pair("name", PyStr("sid")), Pair("secure", PyBool("True"))>>,
    <<Pair("name", PyStr("token")), Pair("expiry", PyNum("1700"))>> }

RECURSIVE ListsUpTo(_)
ListsUpTo(n) ==
  IF n = 0 THEN {<<>>}
  ELSE ListsUpTo(n - 1)
         \cup {Append(l, c) : l \in {x \in ListsUpTo(n - 1) : Len(x) = n - 1},
                              c \in CookieMaps}

CookieLists == ListsUpTo(MaxCookies)

\* JSON text as a sequence of tokens (white space and indentation left out)
Tok(kind, text) == [kind |-> kind, text |-> text]
Punct(c) == Tok("punct", c)

\* json.dump of one value
DumpValue(v) ==
  CASE v.t = "str" -> Tok("string", v.s)
    [] v.t = "bool" -> Tok("literal", IF v.s = "True" THEN "true" ELSE "false")
    [] OTHER -> Tok("number", v.s)

RECURSIVE DumpPairs(_)
DumpPairs(ps) ==
  IF ps = <<>> THEN <<>>
  ELSE <<Tok("string", Head(ps).k), Punct(":"), DumpValue(Head(ps).v)>>
         \o (IF Tail(ps) = <<>> THEN <<>> ELSE <<Punct(",")>>)
         \o DumpPairs(Tail(ps))

DumpCookie(c) == <<Punct("{")>> \o DumpPairs(c) \o <<Punct("}")>>

RECURSIVE DumpCookies(_)
DumpCookies(l) ==
  IF l = <<>> THEN <<>>
  ELSE DumpCookie(Head(l))
         \o (IF Tail(l) = <<>> THEN <<>> ELSE <<Punct(",")>>)
         \o DumpCookies(Tail(l))

\* json.dump(cookies, f, ensure_ascii=False, indent=2)
Dumps(l) == <<Punct("[")>> \o DumpCookies(l) \o <<Punct("]")>>

\* json.load: a recursive-descent parse of the tokens; ok is false where
\* json raises JSONDecodeError
ParseFail == [ok |-> FALSE, value |-> <<>>, rest |-> <<>>]
Parsed(v, rest) == [ok |-> TRUE, value |-> v, rest |-> rest]

IsValueTok(t) == t.kind \in {"string", "number"} \/ (t.kind = "literal" /\ t.text \in {"true", "false"})

LoadValue(t) ==
  CASE t.kind = "string" -> PyStr(t.text)
    [] t.kind = "literal" -> PyBool(IF t.text = "true" THEN "True" ELSE "False")
    [] OTHER -> PyNum(t.text)

\* the members of an object after "{", up to and including "}"
RECURSIVE ParseMembers(_, _)
ParseMembers(toks, acc) ==
  IF Len(toks) < 4 THEN ParseFail
  ELSE IF ~(toks[1].kind = "string" /\ toks[2] = Punct(":") /\ IsValueTok(toks[3]))
    THEN ParseFail
  ELSE LET acc2 == Append(acc, Pair(toks[1].text, LoadValue(toks[3])))
           rest == SubSeq(toks, 5, Len(toks))
       IN  IF toks[4] = Punct("}") THEN Parsed(acc2, rest)
           ELSE IF toks[4] = Punct(",") THEN ParseMembers(rest, acc2)
           ELSE ParseFail

ParseObject(toks) ==
  IF Len(toks) < 2 \/ toks[1] # Punct("{") THEN ParseFail
  ELSE IF toks[2] = Punct("}") THEN Parsed(<<>>, SubSeq(toks, 3, Len(toks)))
  ELSE ParseMembers(Tail(toks), <<>>)

\* the elements of an array after "[", up to and including "]"
RECURSIVE ParseElements(_, _)
ParseElements(toks, acc) ==
  LET o == ParseObject(toks)
  IN  IF ~o.ok \/ o.rest = <<>> THEN ParseFail
      ELSE IF Head(o.rest) = Punct("]")
        THEN Parsed(Append(acc, o.value), Tail(o.rest))
      ELSE IF Head(o.rest) = Punct(",")
        THEN ParseElements(Tail(o.rest), Append(acc, o.value))
      ELSE ParseFail

Loads(toks) ==
  IF Len(toks) < 2 \/ toks[1] # Punct("[") THEN ParseFail
  ELSE LET r == IF toks[2] = Punct("]")
                  THEN Parsed(<<>>, SubSeq(toks, 3, Len(toks)))
                  ELSE ParseElements(Tail(toks), <<>>)
       IN  IF r.ok /\ r.rest = <<>> THEN r ELSE ParseFail

\* return values
RetNothing == [kind |-> "nothing", b |-> FALSE, v |-> <<>>]
RetNone == [kind |-> "None", b |-> FALSE, v |-> <<>>]
RetBool(x) == [kind |-> "bool", b |-> x, v |-> <<>>]
RetList(l) == [kind |-> "list", b |-> FALSE, v |-> l]

\* the cookie file
NoFile == [exists |-> FALSE, data |-> <<>>]
\* open(self.cookie_file, 'w'): the file is created or truncated
OpenForWrite_Append(f) == [exists |-> TRUE, data |-> f.data]
OpenForWrite(f) == [exists |-> TRUE, data |-> <<>>]

\* where json.dump may fail after it has written some of the text
FailPoints(toks) == {0, Len(toks) \div 2}

\* the critical sections of write and read
InCriticalSection(t) == ck_pc[t] \in {"w_open", "w_dump", "w_unlock", "r_exists", "r_open"}
OthersIdle(t) == \A u \in Threads \ {t} : ck_pc[u] = "idle"

\* the list that the last successful write stored, while no later write or
\* delete has succeeded
NothingStored == [has |-> FALSE, v |-> <<>>]
Stored(l) == [has |-> TRUE, v |-> l]

CookieInit ==
  /\ cookie_file = NoFile
  /\ cookie_lock = NoThread
  /\ ck_pc = [t \in Threads |-> "idle"]
  /\ ck_op = [t \in Threads |-> "none"]
  /\ ck_arg = [t \in Threads |-> <<>>]
  /\ ck_ret = [t \in Threads |-> RetNothing]
  /\ ck_raised = [t \in Threads |-> "none"]
  /\ ck_fd = [t \in Threads |-> "closed"]
  /\ ck_saw = [t \in Threads |-> "nothing"]
  /\ ck_last = [op |-> "none", v |-> <<>>]
  /\ ck_stored = NothingStored

\* the frame of a call: the operation, its argument, and a fresh result
Enter(t, op, arg, pc) ==
  /\ ck_pc[t] = "idle"
  /\ ck_pc' = [ck_pc EXCEPT ![t] = pc]
  /\ ck_op' = [ck_op EXCEPT ![t] = op]
  /\ ck_arg' = [ck_arg EXCEPT ![t] = arg]
  /\ ck_ret' = [ck_ret EXCEPT ![t] = RetNothing]
  /\ ck_raised' = [ck_raised EXCEPT ![t] = "none"]
  /\ ck_saw' = [ck_saw EXCEPT ![t] = "nothing"]
  /\ UNCHANGED <<cookie_file, cookie_lock, ck_fd, ck_last,
                 ck_stored>>
  /\ UNCHANGED notCookieVars

\* write(cookies) is entered
WriteCall(t, l) == Enter(t, "write", l, "w_lock")

\* with self._lock:
WriteAcquire(t) ==
  /\ ck_pc[t] = "w_lock"
  /\ cookie_lock = NoThread
  /\ cookie_lock' = t
  /\ ck_pc' = [ck_pc EXCEPT ![t] = "w_open"]
  /\ UNCHANGED <<cookie_file, ck_op, ck_arg, ck_ret, ck_raised, ck_fd, ck_saw, ck_last,
                 ck_stored>>
  /\ UNCHANGED notCookieVars

\* open(self.cookie_file, 'w', ...): succeeds, or raises OSError, which
\* leaves the with block (the lock is released) and is caught: return False
WriteOpen(t, ok) ==
  /\ ck_pc[t] = "w_open"
  /\ IF ok
       THEN /\ cookie_file' = OpenForWrite(cookie_file)
            /\ ck_fd' = [ck_fd EXCEPT ![t] = "open"]
            /\ ck_pc' = [ck_pc EXCEPT ![t] = "w_dump"]
            /\ UNCHANGED <<cookie_lock, ck_ret, ck_raised, ck_last,
                           ck_stored>>
       ELSE /\ cookie_lock' = NoThread
            /\ ck_raised' = [ck_raised EXCEPT ![t] = "OSError"]
            /\ ck_ret' = [ck_ret EXCEPT ![t] = RetBool(FALSE)]
            /\ ck_pc' = [ck_pc EXCEPT ![t] = "done"]
            /\ ck_last' = [op |-> "write_failed", v |-> <<>>]
            /\ UNCHANGED ck_stored
            /\ UNCHANGED <<cookie_file, ck_fd>>
  /\ UNCHANGED <<ck_op, ck_arg, ck_saw>>
  /\ UNCHANGED notCookieVars

\* what the file holds once `written` has been written through the handle
\* of thread t: nothing changes under the path if the file was unlinked
AfterWrite(t, written) ==
  IF ck_fd[t] = "open"
    THEN [exists |-> TRUE, data |-> cookie_file.data \o written]
    ELSE cookie_file

\* json.dump(cookies, f, ...) and the close of f: all of the text, or (n <
\* its length) an exception after n tokens, which closes f, releases the lock
\* and is caught: return False
WriteDump(t, n) ==
  /\ ck_pc[t] = "w_dump"
  /\ LET text == Dumps(ck_arg[t])
     IN  /\ n = Len(text) \/ n \in FailPoints(text)
         /\ cookie_file' = AfterWrite(t, SubSeq(text, 1, n))
         /\ ck_fd' = [ck_fd EXCEPT ![t] = "closed"]
         /\ IF n = Len(text)
              THEN /\ ck_pc' = [ck_pc EXCEPT ![t] = "w_unlock"]
                   /\ UNCHANGED <<cookie_lock, ck_ret, ck_raised, ck_last,
                                  ck_stored>>
              ELSE /\ cookie_lock' = NoThread
                   /\ ck_raised' = [ck_raised EXCEPT ![t] = "OSError"]
                   /\ ck_ret' = [ck_ret EXCEPT ![t] = RetBool(FALSE)]
                   /\ ck_pc' = [ck_pc EXCEPT ![t] = "done"]
                   /\ ck_last' = [op |-> "write_failed", v |-> <<>>]
                   /\ UNCHANGED ck_stored
  /\ UNCHANGED <<ck_op, ck_arg, ck_saw>>
  /\ UNCHANGED notCookieVars

\* the end of `with self._lock`, logger.debug, return True
WriteRelease(t) ==
  /\ ck_pc[t] = "w_unlock"
  /\ cookie_lock' = NoThread
  /\ ck_ret' = [ck_ret EXCEPT ![t] = RetBool(TRUE)]
  /\ ck_pc' = [ck_pc EXCEPT ![t] = "done"]
  /\ ck_last' = [op |-> "write_ok", v |-> ck_arg[t]]
  /\ ck_stored' = Stored(ck_arg[t])
  /\ UNCHANGED <<cookie_file, ck_op, ck_arg, ck_raised, ck_fd, ck_saw>>
  /\ UNCHANGED notCookieVars

\* read() is entered
ReadCall(t) == Enter(t, "read", <<>>, "r_lock")

\* with self._lock:
ReadAcquire(t) ==
  /\ ck_pc[t] = "r_lock"
  /\ cookie_lock = NoThread
  /\ cookie_lock' = t
  /\ ck_pc' = [ck_pc EXCEPT ![t] = "r_exists"]
  /\ UNCHANGED <<cookie_file, ck_op, ck_arg, ck_ret, ck_raised, ck_fd, ck_saw, ck_last,
                 ck_stored>>
  /\ UNCHANGED notCookieVars

\* if not os.path.exists(self.cookie_file): return None
ReadExists(t) ==
  /\ ck_pc[t] = "r_exists"
  /\ ck_saw' = [ck_saw EXCEPT ![t] = IF cookie_file.exists THEN "present" ELSE "absent"]
  /\ IF cookie_file.exists
       THEN /\ ck_pc' = [ck_pc EXCEPT ![t] = "r_open"]
            /\ UNCHANGED <<cookie_lock, ck_ret>>
       ELSE /\ cookie_lock' = NoThread
            /\ ck_ret' = [ck_ret EXCEPT ![t] = RetNone]
            /\ ck_pc' = [ck_pc EXCEPT ![t] = "done"]
  /\ UNCHANGED <<cookie_file, ck_op, ck_arg, ck_raised, ck_fd, ck_last,
                 ck_stored>>
  /\ UNCHANGED notCookieVars

\* with open(self.cookie_file, 'r', ...) as f: return json.load(f); an
\* OSError (ioFail, or the file is gone) or a JSONDecodeError releases the
\* lock and is caught: return None
ReadLoad(t, ioFail) ==
  /\ ck_pc[t] = "r_open"
  /\ LET r == Loads(cookie_file.data)
         raised == IF ioFail THEN "OSError"
                   ELSE IF ~cookie_file.exists THEN "FileNotFoundError"
                   ELSE IF ~r.ok THEN "JSONDecodeError"
                   ELSE "none"
     IN  /\ ck_raised' = [ck_raised EXCEPT ![t] = raised]
         /\ ck_ret' = [ck_ret EXCEPT ![t] = IF raised # "none" THEN RetNone ELSE RetList(r.value)]
  /\ cookie_lock' = NoThread
  /\ ck_pc' = [ck_pc EXCEPT ![t] = "done"]
  /\ UNCHANGED <<cookie_file, ck_op, ck_arg, ck_fd, ck_saw, ck_last,
                 ck_stored>>
  /\ UNCHANGED notCookieVars

\* delete() is entered (no lock is taken)
DeleteCall(t) == Enter(t, "delete", <<>>, "d_exists")

\* os.path.exists(self.cookie_file) as delete() sees it
DeleteSeesFile_Always == TRUE
DeleteSeesFile == cookie_file.exists

\* if os.path.exists(self.cookie_file): ... / return True
DeleteExists(t) ==
  /\ ck_pc[t] = "d_exists"
  /\ ck_saw' = [ck_saw EXCEPT ![t] = IF cookie_file.exists THEN "present" ELSE "absent"]
  /\ IF DeleteSeesFile
       THEN /\ ck_pc' = [ck_pc EXCEPT ![t] = "d_remove"]
            /\ UNCHANGED <<ck_ret, ck_last,
                           ck_stored>>
       ELSE /\ ck_ret' = [ck_ret EXCEPT ![t] = RetBool(TRUE)]
            /\ ck_pc' = [ck_pc EXCEPT ![t] = "done"]
            /\ ck_last' = [op |-> "delete_ok", v |-> <<>>]
            /\ ck_stored' = NothingStored
  /\ UNCHANGED <<cookie_file, cookie_lock, ck_op, ck_arg, ck_raised, ck_fd>>
  /\ UNCHANGED notCookieVars

\* os.remove(self.cookie_file): the path is unlinked (a handle that is open
\* on the file keeps writing to the unlinked file), or OSError (ioFail, or
\* the file is gone) is caught: return False
DeleteRemove(t, ioFail) ==
  /\ ck_pc[t] = "d_remove"
  /\ IF cookie_file.exists /\ ~ioFail
       THEN /\ cookie_file' = NoFile
            /\ ck_fd' = [u \in Threads |-> IF ck_fd[u] = "open" THEN "unlinked" ELSE ck_fd[u]]
            /\ ck_ret' = [ck_ret EXCEPT ![t] = RetBool(TRUE)]
            /\ ck_last' = [op |-> "delete_ok", v |-> <<>>]
            /\ ck_stored' = NothingStored
            /\ UNCHANGED ck_raised
       ELSE /\ ck_raised' = [ck_raised EXCEPT ![t] =
                               IF ioFail THEN "OSError" ELSE "FileNotFoundError"]
            /\ ck_ret' = [ck_ret EXCEPT ![t] = RetBool(FALSE)]
            /\ UNCHANGED <<cookie_file, ck_fd, ck_last,
                           ck_stored>>
  /\ ck_pc' = [ck_pc EXCEPT ![t] = "done"]
  /\ UNCHANGED <<cookie_lock, ck_op, ck_arg, ck_saw>>
  /\ UNCHANGED notCookieVars

\* the caller has the result
CookieReturn(t) ==
  /\ ck_pc[t] = "done"
  /\ ck_pc' = [ck_pc EXCEPT ![t] = "idle"]
  /\ ck_op' = [ck_op EXCEPT ![t] = "none"]
  /\ ck_arg' = [ck_arg EXCEPT ![t] = <<>>]
  /\ ck_ret' = [ck_ret EXCEPT ![t] = RetNothing]
  /\ ck_raised' = [ck_raised EXCEPT ![t] = "none"]
  /\ ck_saw' = [ck_saw EXCEPT ![t] = "nothing"]
  /\ UNCHANGED <<cookie_file, cookie_lock, ck_fd, ck_last,
                 ck_stored>>
  /\ UNCHANGED notCookieVars

\* the steps inside a call
CookieStep(t) ==
  \/ WriteAcquire(t)
  \/ \E ok \in BOOLEAN : WriteOpen(t, ok)
  \/ \E n \in 0..Len(Dumps(ck_arg[t])) : WriteDump(t, n)
  \/ WriteRelease(t)
  \/ ReadAcquire(t)
  \/ ReadExists(t)
  \/ \E ioFail \in BOOLEAN : ReadLoad(t, ioFail)
  \/ DeleteExists(t)
  \/ \E ioFail \in BOOLEAN : DeleteRemove(t, ioFail)
  \/ CookieReturn(t)

\* threads call write, read and delete on one instance at any time (the
\* lists written have at most one cookie)
CookieNext ==
  \/ \E t \in Threads, l \in ListsUpTo(1) : WriteCall(t, l)
  \/ \E t \in Threads : ReadCall(t)
  \/ \E t \in Threads : DeleteCall(t)
  \/ \E t \in Threads : CookieStep(t)

\* one call at a time: a call is entered only when no other is in progress
CookieSeqNext ==
  \/ \E t \in Threads, l \in CookieLists : OthersIdle(t) /\ WriteCall(t, l)
  \/ \E t \in Threads : OthersIdle(t) /\ ReadCall(t)
  \/ \E t \in Threads : OthersIdle(t) /\ DeleteCall(t)
  \/ \E t \in Threads : CookieStep(t)

\* ========================================================================
\* Statistics (src/tools/utils.py:238-293)
\* ========================================================================

\* `with self._lock` can be entered
StatLockFree_NoLock == TRUE
StatLockFree == stat_lock = NoThread

StatsInit ==
  /\ stat_lock = NoThread
  /\ start_time = "None"
  /\ attempt_count = 0
  /\ success = FALSE
  /\ error_count = 0
  /\ last_error = ""
  /\ st_pc = [t \in Threads |-> "idle"]
  /\ st_op = [t \in Threads |-> "none"]
  /\ st_arg = [t \in Threads |-> ""]
  /\ st_tmp = [t \in Threads |-> 0]
  /\ done_attempts = 0
  /\ done_errors = 0
  /\ success_recorded = FALSE

\* start(), record_attempt(), record_error(error) or record_success() is
\* entered by thread t
StatCall(t, op, text) ==
  /\ st_pc[t] = "idle"
  /\ op = "record_attempt" => attempt_count < MaxAttemptRecords
  /\ op = "record_error" => error_count < MaxErrorRecords
  /\ st_pc' = [st_pc EXCEPT ![t] = "lock"]
  /\ st_op' = [st_op EXCEPT ![t] = op]
  /\ st_arg' = [st_arg EXCEPT ![t] = text]
  /\ UNCHANGED <<stat_lock, start_time, attempt_count, success, error_count,
                 last_error, st_tmp, done_attempts, done_errors, success_recorded>>
  /\ UNCHANGED notStatVars

\* with self._lock:
StatAcquire(t) ==
  /\ st_pc[t] = "lock"
  /\ StatLockFree
  /\ stat_lock' = t
  /\ st_pc' = [st_pc EXCEPT ![t] = st_op[t]]
  /\ UNCHANGED <<start_time, attempt_count, success, error_count, last_error,
                 st_op, st_arg, st_tmp, done_attempts, done_errors, success_recorded>>
  /\ UNCHANGED notStatVars

\* the body of start()
StatStart(t) ==
  /\ st_pc[t] = "start"
  /\ start_time' = "set"
  /\ attempt_count' = 0
  /\ success' = FALSE
  /\ error_count' = 0
  /\ done_attempts' = 0
  /\ done_errors' = 0
  /\ success_recorded' = FALSE
  /\ st_pc' = [st_pc EXCEPT ![t] = "unlock"]
  /\ UNCHANGED <<stat_lock, last_error, st_op, st_arg, st_tmp>>
  /\ UNCHANGED notStatVars

\* self.attempt_count += 1 / self.error_count += 1: the value is read ...
StatLoad(t) ==
  /\ st_pc[t] \in {"record_attempt", "record_error"}
  /\ st_tmp' = [st_tmp EXCEPT ![t] =
                  IF st_op[t] = "record_attempt" THEN attempt_count ELSE error_count]
  /\ st_pc' = [st_pc EXCEPT ![t] = "store"]
  /\ UNCHANGED <<stat_lock, start_time, attempt_count, success, error_count,
                 last_error, st_op, st_arg, done_attempts, done_errors,
                 success_recorded>>
  /\ UNCHANGED notStatVars

\* ... and the value plus one is stored; record_error then sets last_error
StatStore(t) ==
  /\ st_pc[t] = "store"
  /\ IF st_op[t] = "record_attempt"
       THEN /\ attempt_count' = st_tmp[t] + 1
            /\ UNCHANGED <<error_count, last_error>>
       ELSE /\ error_count' = st_tmp[t] + 1
            /\ last_error' = st_arg[t]
            /\ UNCHANGED attempt_count
  /\ st_pc' = [st_pc EXCEPT ![t] = "unlock"]
  /\ UNCHANGED <<stat_lock, start_time, success, st_op, st_arg, st_tmp,
                 done_attempts, done_errors, success_recorded>>
  /\ UNCHANGED notStatVars

\* the body of record_success()
StatSuccess(t) ==
  /\ st_pc[t] = "record_success"
  /\ success' = TRUE
  /\ st_pc' = [st_pc EXCEPT ![t] = "unlock"]
  /\ UNCHANGED <<stat_lock, start_time, attempt_count, error_count, last_error,
                 st_op, st_arg, st_tmp, done_attempts, done_errors,
                 success_recorded>>
  /\ UNCHANGED notStatVars

\* the end of `with self._lock`: the call is complete
StatRelease(t) ==
  /\ st_pc[t] = "unlock"
  /\ stat_lock' = NoThread
  /\ done_attempts' = done_attempts + (IF st_op[t] = "record_attempt" THEN 1 ELSE 0)
  /\ done_errors' = done_errors + (IF st_op[t] = "record_error" THEN 1 ELSE 0)
  /\ success_recorded' = (success_recorded \/ st_op[t] = "record_success")
  /\ st_pc' = [st_pc EXCEPT ![t] = "idle"]
  /\ st_op' = [st_op EXCEPT ![t] = "none"]
  /\ st_arg' = [st_arg EXCEPT ![t] = ""]
  /\ st_tmp' = [st_tmp EXCEPT ![t] = 0]
  /\ UNCHANGED <<start_time, attempt_count, success, error_count, last_error>>
  /\ UNCHANGED notStatVars

\* summary(): the result line and the two counts of the report
Summary ==
  [result |-> IF success THEN "success" ELSE "failure",
   attempts |-> attempt_count,
   errors |-> error_count]

StatsNext ==
  \/ \E t \in Threads, op \in {"start", "record_attempt", "record_success"} :
       StatCall(t, op, "")
  \/ \E t \in Threads : StatCall(t, "record_error", "x")
  \/ \E t \in Threads : StatAcquire(t)
  \/ \E t \in Threads : StatStart(t)
  \/ \E t \in Threads : StatLoad(t)
  \/ \E t \in Threads : StatStore(t)
  \/ \E t \in Threads : StatSuccess(t)
  \/ \E t \in Threads : StatRelease(t)

\* ========================================================================
\* timer context manager (src/tools/utils.py:302-314)
\* ========================================================================
NoLog == [description |-> "", elapsed |-> -1]

ScopedTimerInit ==
  /\ tm_pc = "idle"
  /\ tm_clock = 0
  /\ tm_description = ""
  /\ tm_start = 0
  /\ tm_exit = "none"
  /\ tm_log = NoLog

\* with timer(description): start = time.time(); yield
TimerEnter(description) ==
  /\ tm_pc \in {"idle", "exited"}
  /\ tm_clock < MaxTimerClock
  /\ tm_description' = description
  /\ tm_start' = tm_clock
  /\ tm_exit' = "none"
  /\ tm_log' = NoLog
  /\ tm_pc' = "block"
  /\ UNCHANGED tm_clock
  /\ UNCHANGED notTimerVars

\* the enclosed block completes after d: the generator resumes after yield
TimerBlockCompletes(d) ==
  /\ tm_pc = "block"
  /\ tm_clock' = tm_clock + d
  /\ tm_pc' = "resumed"
  /\ UNCHANGED <<tm_description, tm_start, tm_exit, tm_log>>
  /\ UNCHANGED notTimerVars

\* the enclosed block raises after d: the exception is thrown into the
\* generator at the yield, which is in no try block, so the generator ends
\* there and the exception goes on to the caller
TimerBlockRaises(d) ==
  /\ tm_pc = "block"
  /\ tm_clock' = tm_clock + d
  /\ tm_exit' = "exception"
  /\ tm_pc' = "exited"
  /\ UNCHANGED <<tm_description, tm_start, tm_log>>
  /\ UNCHANGED notTimerVars

\* elapsed = time.time() - start; logger.debug(f"{description} ...")
TimerLog ==
  /\ tm_pc = "resumed"
  /\ tm_log' = [description |-> tm_description, elapsed |-> tm_clock - tm_start]
  /\ tm_exit' = "normal"
  /\ tm_pc' = "exited"
  /\ UNCHANGED <<tm_clock, tm_description, tm_start>>
  /\ UNCHANGED notTimerVars

ScopedTimerNext ==
  \/ \E description \in {"login", "order"} : TimerEnter(description)
  \/ \E d \in 0..2 : TimerBlockCompletes(d)
  \/ \E d \in 0..2 : TimerBlockRaises(d)
  \/ TimerLog

\* ========================================================================
\* Config (src/config.py)
\* ========================================================================
\* A text is the sequence of its characters.
TxtAlice == <<"a">>
TxtSecret == <<"p">>
TxtPercent == <<"p", "%", "w">>
TxtProductId == <<"1">>
TxtRed == <<"r">>
TxtChrome == <<"c", "h", "r", "o", "m", "e">>
TxtFirefox == <<"f", "i", "r", "e", "f", "o", "x">>
TxtEdge == <<"e", "d", "g", "e">>
TxtSafari == <<"s", "a", "f", "a", "r", "i">>
TxtOpera == <<"o", "p", "e", "r", "a">>
TxtFullPayment == <<"f", "u", "l", "l">>
TxtAgent == <<"U", "A">>
TxtDriverPath == <<"/", "d">>
TxtProxy == <<"h", ":", "8">>

\* class attributes of Config
SUPPORTED_BROWSERS == {TxtChrome, TxtFirefox, TxtEdge, TxtSafari}
MAX_THREADS == 20

\* A float of the configuration is NaN or a whole number of 1/10000 (e4);
\* the texts read here have at most four fractional digits.
Fl(n) == [nan |-> FALSE, e4 |-> n]
NaN == [nan |-> TRUE, e4 |-> 0]
MIN_INTERVAL == Fl(10)
\* a < b on floats: every comparison with NaN is false
FloatLt(a, b) == ~a.nan /\ ~b.nan /\ a.e4 < b.e4
FloatGe(a, b) == ~a.nan /\ ~b.nan /\ a.e4 >= b.e4

\* ---- int(value), float(value) and the boolean states of ConfigParser ----
Digits == {"0", "1", "2", "3", "4", "5", "6", "7", "8", "9"}
DigitVal ==
  ("0" :> 0) @@ ("1" :> 1) @@ ("2" :> 2) @@ ("3" :> 3) @@ ("4" :> 4) @@
  ("5" :> 5) @@ ("6" :> 6) @@ ("7" :> 7) @@ ("8" :> 8) @@ ("9" :> 9)

AllDigits(t) == \A i \in 1..Len(t) : t[i] \in Digits

RECURSIVE DigitsValue(_, _)
DigitsValue(t, acc) ==
  IF t = <<>> THEN acc ELSE DigitsValue(Tail(t), 10 * acc + DigitVal[Head(t)])

RECURSIVE Pow10(_)
Pow10(n) == IF n = 0 THEN 1 ELSE 10 * Pow10(n - 1)

Signed(t) == t # <<>> /\ t[1] \in {"+", "-"}
Unsigned(t) == IF Signed(t) THEN Tail(t) ELSE t
SignOf(t) == IF Signed(t) /\ t[1] = "-" THEN -1 ELSE 1

ParseOk(v) == [ok |-> TRUE, v |-> v]
ParseFails == [ok |-> FALSE, v |-> 0]

\* int(text): an optional sign and one or more digits
ParseInt(t) ==
  LET body == Unsigned(t)
  IN  IF body # <<>> /\ AllDigits(body)
        THEN ParseOk(SignOf(t) * DigitsValue(body, 0))
        ELSE ParseFails

\* the lower-case form of the letters that occur in the texts read
LowerChar(c) ==
  CASE c = "T" -> "t" [] c = "Y" -> "y" [] c = "N" -> "n" [] c = "F" -> "f"
    [] c = "O" -> "o" [] c = "A" -> "a" [] c = "U" -> "u"
    [] OTHER -> c
Lower(t) == [i \in 1..Len(t) |-> LowerChar(t[i])]

DotAt(t) == IF \E i \in 1..Len(t) : t[i] = "."
              THEN CHOOSE i \in 1..Len(t) :
                     t[i] = "." /\ \A j \in 1..(i - 1) : t[j] # "."
              ELSE 0

\* float(text): nan, or an optional sign, digits and an optional fraction
ParseFloat(t) ==
  LET body == Unsigned(t)
      dot == DotAt(body)
      whole == IF dot = 0 THEN body ELSE SubSeq(body, 1, dot - 1)
      frac == IF dot = 0 THEN <<>> ELSE SubSeq(body, dot + 1, Len(body))
  IN  IF Lower(body) = <<"n", "a", "n">> THEN ParseOk(NaN)
      ELSE IF /\ AllDigits(whole) /\ AllDigits(frac)
              /\ Len(whole) + Len(frac) > 0 /\ Len(frac) <= 4
        THEN ParseOk(Fl(SignOf(t) * (DigitsValue(whole, 0) * 10000
                          + DigitsValue(frac, 0) * Pow10(4 - Len(frac)))))
        ELSE ParseFails

\* RawConfigParser.BOOLEAN_STATES, looked up with value.lower()
TrueTexts == {<<"1">>, <<"y", "e", "s">>, <<"t", "r", "u", "e">>, <<"o", "n">>}
FalseTexts == {<<"0">>, <<"n", "o">>, <<"f", "a", "l", "s", "e">>, <<"o", "f", "f">>}
ParseBoolean(t) ==
  IF Lower(t) \in TrueTexts THEN ParseOk(TRUE)
  ELSE IF Lower(t) \in FalseTexts THEN [ok |-> TRUE, v |-> FALSE]
  ELSE [ok |-> FALSE, v |-> FALSE]

\* BasicInterpolation on a value without references: %% is a percent sign,
\* any other % raises InterpolationSyntaxError
RECURSIVE Interpolates(_)
Interpolates(t) ==
  IF t = <<>> THEN TRUE
  ELSE IF Head(t) # "%" THEN Interpolates(Tail(t))
  ELSE IF Len(t) >= 2 /\ t[2] = "%" THEN Interpolates(SubSeq(t, 3, Len(t)))
  ELSE FALSE

RECURSIVE Interpolated(_)
Interpolated(t) ==
  IF t = <<>> THEN <<>>
  ELSE IF Head(t) # "%" THEN <<Head(t)>> \o Interpolated(Tail(t))
  ELSE <<"%">> \o Interpolated(SubSeq(t, 3, Len(t)))

\* ---- the file as ConfigParser.read() holds it -------------------------
\* the (section, option) pairs that _parse_config asks for
Keys ==
  {<<"user", "name">>, <<"user", "password">>,
   <<"product", "name">>, <<"product", "id">>, <<"product", "color">>,
   <<"product", "version">>, <<"product", "payment">>, <<"product", "sets">>,
   <<"browser", "type">>, <<"browser", "driverPath">>,
   <<"browser", "headless">>, <<"browser", "userAgent">>,
   <<"browser", "proxy">>,
   <<"process", "thread">>, <<"process", "interval">>,
   <<"process", "retryTimes">>, <<"process", "timeout">>,
   <<"notify", "enableSound">>, <<"notify", "enableEmail">>,
   <<"notify", "emailTo">>, <<"notify", "emailFrom">>,
   <<"notify", "emailPassword">>}
Sections == {"user", "product", "browser", "process", "notify"}

NoOption == [has |-> FALSE, text |-> <<>>]
Raw(t) == [has |-> TRUE, text |-> t]

\* a file: the sections it has, the options written in them, and the options
\* of its [DEFAULT] section (which every section inherits)
IniFile(secs, opts, dflt) ==
  [sections |-> secs,
   options |-> [k \in Keys |-> IF k[1] \in secs /\ k \in DOMAIN opts
                                 THEN opts[k] ELSE NoOption],
   defaults |-> dflt]
NoFileRead == IniFile({}, <<>>, [k \in {} |-> <<>>])

\* self.config.get(section, option): the text, or the exception raised
ConfigParserGet(file, section, option) ==
  IF section \notin file.sections
    THEN [raised |-> "NoSectionError", text |-> <<>>]
  ELSE LET found == IF /\ <<section, option>> \in DOMAIN file.options
                         /\ file.options[<<section, option>>].has
                      THEN file.options[<<section, option>>]
                    ELSE IF option \in DOMAIN file.defaults
                      THEN Raw(file.defaults[option])
                    ELSE NoOption
       IN  IF ~found.has THEN [raised |-> "NoOptionError", text |-> <<>>]
           ELSE IF ~Interpolates(found.text)
             THEN [raised |-> "InterpolationSyntaxError", text |-> <<>>]
           ELSE [raised |-> "none", text |-> Interpolated(found.text)]

\* a default_value argument: given, or left at None
Given(v) == [given |-> TRUE, v |-> v]
NotGiven(zero) == [given |-> FALSE, v |-> zero]

\* `default_value if default_value is not None else <zero>`
Fallback(d, zero) == IF d.given THEN d.v ELSE zero

\* `except:` catches every exception
BareExcept_ValueErrorOnly(exc) == exc = "ValueError"
BareExcept(exc) == TRUE

\* try: return <value> / except: return <default>, where evaluating the
\* value raised exc ("none": nothing)
Guarded(exc, value, d, zero) ==
  IF exc = "none" THEN [raised |-> "none", v |-> value]
  ELSE IF BareExcept(exc) THEN [raised |-> "none", v |-> Fallback(d, zero)]
  ELSE [raised |-> exc, v |-> zero]

\* what ConfigParser.getboolean / getint / getfloat raise for a text
Converted(r, conv) ==
  IF r.raised # "none" THEN r.raised
  ELSE IF ~conv.ok THEN "ValueError"
  ELSE "none"

\* Config.get / getboolean / getint / getfloat
Get(file, section, option, d) ==
  LET r == ConfigParserGet(file, section, option)
  IN  Guarded(r.raised, r.text, d, <<>>)

GetBoolean(file, section, option, d) ==
  LET r == ConfigParserGet(file, section, option)
  IN  Guarded(Converted(r, ParseBoolean(r.text)), ParseBoolean(r.text).v, d, FALSE)

GetInt(file, section, option, d) ==
  LET r == ConfigParserGet(file, section, option)
  IN  Guarded(Converted(r, ParseInt(r.text)), ParseInt(r.text).v, d, 0)

GetFloat(file, section, option, d) ==
  LET r == ConfigParserGet(file, section, option)
  IN  Guarded(Converted(r, ParseFloat(r.text)), ParseFloat(r.text).v, d, Fl(0))

\* the dataclass defaults
DefaultThread == 1
DefaultInterval == Fl(10)
DefaultRetryTimes == 3
DefaultTimeout == 30

\* _parse_config(): the AppConfig built from the file
ParseConfig(file) ==
  [user |->
     [name |-> Get(file, "user", "name", Given(<<>>)).v,
      password |-> Get(file, "user", "password", Given(<<>>)).v],
   product |->
     [name |-> Get(file, "product", "name", Given(<<>>)).v,
      id |-> Get(file, "product", "id", Given(<<>>)).v,
      color |-> Get(file, "product", "color", Given(<<>>)).v,
      version |-> Get(file, "product", "version", Given(<<>>)).v,
      payment |-> Get(file, "product", "payment", Given(TxtFullPayment)).v,
      sets |-> Get(file, "product", "sets", Given(<<>>)).v],
   browser |->
     [type |-> Get(file, "browser", "type", Given(TxtChrome)).v,
      driver_path |-> Get(file, "browser", "driverPath", Given(<<>>)).v,
      headless |-> GetBoolean(file, "browser", "headless", Given(FALSE)).v,
      user_agent |-> Get(file, "browser", "userAgent", Given(<<>>)).v,
      proxy |-> Get(file, "browser", "proxy", Given(<<>>)).v],
   process |->
     [thread |-> GetInt(file, "process", "thread", Given(DefaultThread)).v,
      interval |-> GetFloat(file, "process", "interval", Given(DefaultInterval)).v,
      retry_times |-> GetInt(file, "process", "retryTimes", Given(DefaultRetryTimes)).v,
      timeout |-> GetInt(file, "process", "timeout", Given(DefaultTimeout)).v],
   notify |->
     [enable_sound |-> GetBoolean(file, "notify", "enableSound", Given(TRUE)).v,
      enable_email |-> GetBoolean(file, "notify", "enableEmail", Given(FALSE)).v,
      email_to |-> Get(file, "notify", "emailTo", Given(<<>>)).v,
      email_from |-> Get(file, "notify", "emailFrom", Given(<<>>)).v,
      email_password |-> Get(file, "notify", "emailPassword", Given(<<>>)).v]]

\* ---- validate() --------------------------------------------------------
ConfigError(kind, detail) == [kind |-> kind, detail |-> detail]
When(cond, item) == IF cond THEN <<item>> ELSE <<>>

IsSupportedBrowser_ChromeOnly(type) == type = TxtChrome
IsSupportedBrowser(type) == type \in SUPPORTED_BROWSERS

\* the thread and interval that validate() leaves in app_config
ClampThread_Keep(thread) == thread
ClampThread(thread) ==
  IF thread < 1 THEN thread
  ELSE IF thread > MAX_THREADS THEN MAX_THREADS
  ELSE thread
FloorInterval(interval) ==
  IF FloatLt(interval, MIN_INTERVAL) THEN MIN_INTERVAL ELSE interval

\* validate(): the errors returned, the warnings logged and app_config after
Validate(app) ==
  [errors |->
     When(app.user.name = <<>>, ConfigError("name", <<>>))
     \o When(app.user.password = <<>>, ConfigError("password", <<>>))
     \o When(app.product.id = <<>>, ConfigError("product_id", <<>>))
     \o When(~IsSupportedBrowser(app.browser.type),
             ConfigError("browser_type", app.browser.type))
     \o When(app.process.thread < 1, ConfigError("thread", <<>>)),
   warnings |->
     When(app.product.color = <<>>, "color")
     \o When(app.product.version = <<>>, "version")
     \o When(app.browser.headless /\ app.browser.user_agent = <<>>, "user_agent")
     \o When(~(app.process.thread < 1) /\ app.process.thread > MAX_THREADS,
             "thread")
     \o When(FloatLt(app.process.interval, MIN_INTERVAL), "interval"),
   app |->
     [app EXCEPT !.process.thread = ClampThread(@),
                 !.process.interval = FloorInterval(@)]]

\* display(): the rows of the table printed
Display(app) ==
  <<app.user.name, Len(app.user.password), app.product.name, app.product.id,
    app.product.color, app.product.version, app.product.payment,
    app.browser.type, app.browser.headless, app.process.thread,
    app.process.interval>>

NoReturn == [kind |-> "none"]

ConfigInit ==
  /\ cfg_pc = "unloaded"
  /\ cfg_file = NoFileRead
  /\ app_config = ParseConfig(NoFileRead)
  /\ cfg_before = ParseConfig(NoFileRead)
  /\ cfg_op = "none"
  /\ cfg_errors = <<>>
  /\ cfg_warnings = <<>>
  /\ cfg_shown = <<>>
  /\ cfg_ret = NoReturn

\* Config(filename) for a file that exists: read() and _parse_config()
Load(file) ==
  /\ cfg_pc = "unloaded"
  /\ cfg_pc' = "loaded"
  /\ cfg_file' = file
  /\ app_config' = ParseConfig(file)
  /\ cfg_before' = ParseConfig(file)
  /\ cfg_op' = "load"
  /\ UNCHANGED <<cfg_errors, cfg_warnings, cfg_shown, cfg_ret>>
  /\ UNCHANGED notConfigVars

\* Config(filename) for a file that does not exist: ConfigValidationError
LoadMissing ==
  /\ cfg_pc = "unloaded"
  /\ cfg_pc' = "raised"
  /\ cfg_op' = "load"
  /\ cfg_ret' = [kind |-> "raised", v |-> "ConfigValidationError"]
  /\ UNCHANGED <<cfg_file, app_config, cfg_before, cfg_errors, cfg_warnings,
                 cfg_shown>>
  /\ UNCHANGED notConfigVars

\* validate()
ValidateCall ==
  /\ cfg_pc = "loaded"
  /\ cfg_before' = app_config
  /\ cfg_op' = "validate"
  /\ cfg_errors' = Validate(app_config).errors
  /\ cfg_warnings' = Validate(app_config).warnings
  /\ app_config' = Validate(app_config).app
  /\ cfg_ret' = [kind |-> "errors", v |-> Validate(app_config).errors]
  /\ UNCHANGED <<cfg_pc, cfg_file, cfg_shown>>
  /\ UNCHANGED notConfigVars

\* display()
DisplayCall ==
  /\ cfg_pc = "loaded"
  /\ cfg_before' = app_config
  /\ cfg_op' = "display"
  /\ cfg_shown' = Display(app_config)
  /\ cfg_ret' = NoReturn
  /\ UNCHANGED <<cfg_pc, cfg_file, app_config, cfg_errors, cfg_warnings>>
  /\ UNCHANGED notConfigVars

\* validate_and_display(): validate(), then display(), then the verdict
ValidateAndDisplayCall ==
  /\ cfg_pc = "loaded"
  /\ cfg_before' = app_config
  /\ cfg_op' = "validate_and_display"
  /\ cfg_errors' = Validate(app_config).errors
  /\ cfg_warnings' = Validate(app_config).warnings
  /\ app_config' = Validate(app_config).app
  /\ cfg_shown' = Display(Validate(app_config).app)
  /\ cfg_ret' = [kind |-> "bool", v |-> Validate(app_config).errors = <<>>]
  /\ UNCHANGED <<cfg_pc, cfg_file>>
  /\ UNCHANGED notConfigVars

\* a call of one of the four getters by a user of the Config object
GetterCall(getter, section, option, d) ==
  /\ cfg_pc = "loaded"
  /\ cfg_before' = app_config
  /\ cfg_op' = "getter"
  /\ cfg_ret' =
       LET out == CASE getter = "get" -> Get(cfg_file, section, option, d)
                    [] getter = "getboolean" ->
                         GetBoolean(cfg_file, section, option, d)
                    [] getter = "getint" -> GetInt(cfg_file, section, option, d)
                    [] OTHER -> GetFloat(cfg_file, section, option, d)
       IN  [kind |-> getter, section |-> section, option |-> option, d |-> d,
            raised |-> out.raised, v |-> out.v]
  /\ UNCHANGED <<cfg_pc, cfg_file, app_config, cfg_errors, cfg_warnings,
                 cfg_shown>>
  /\ UNCHANGED notConfigVars

\* ---- the files read ----------------------------------------------------
NoDefaults == [k \in {} |-> <<>>]

\* the five settings validate() can reject, each accepted or rejected
CoreOptions ==
  {(<<"user", "name">> :> name) @@ (<<"user", "password">> :> password)
     @@ (<<"product", "id">> :> id) @@ (<<"browser", "type">> :> type)
     @@ (<<"process", "thread">> :> thread) :
     name \in {Raw(<<>>), Raw(TxtAlice)},
     password \in {NoOption, Raw(TxtSecret)},
     id \in {Raw(<<>>), Raw(TxtProductId)},
     type \in {Raw(TxtChrome), Raw(TxtOpera)},
     thread \in {Raw(<<"0">>), Raw(<<"1">>)}}

\* one further difference from the core: options written over it, sections
\* left out of the file, options of [DEFAULT]
Variation(opts, without, dflt) == [opts |-> opts, without |-> without, dflt |-> dflt]
Rewrite(section, option, text) ==
  Variation(<<section, option>> :> Raw(text), {}, NoDefaults)
Variations ==
  {Variation(NoDefaults, {}, NoDefaults)}
  \cup {Rewrite("browser", "type", t) : t \in {TxtFirefox, TxtEdge, TxtSafari}}
  \cup {Rewrite("process", "thread", t) :
          t \in {<<"2", "0">>, <<"2", "1">>, <<"5", "0">>, <<"-", "3">>,
                 <<"a", "b", "c">>}}
  \cup {Rewrite("process", "interval", t) :
          t \in {<<"0", ".", "0", "0", "0", "1">>, <<"0", ".", "0", "0", "1">>,
                 <<"0", ".", "5">>, <<"-", "1">>, <<"n", "a", "n">>,
                 <<"a", "b", "c">>}}
  \cup {Variation((<<"browser", "headless">> :> Raw(h))
                    @@ (<<"browser", "userAgent">> :> ua), {}, NoDefaults) :
          h \in {<<"t", "r", "u", "e">>, <<"Y", "e", "s">>, <<"0">>,
                 <<"m", "a", "y", "b", "e">>},
          ua \in {NoOption, Raw(<<>>), Raw(TxtAgent)}}
  \cup {Rewrite("user", "password", TxtPercent),
        Rewrite("product", "color", TxtRed),
        Rewrite("product", "payment", <<>>),
        Rewrite("browser", "driverPath", TxtDriverPath),
        Rewrite("browser", "proxy", TxtProxy)}
  \cup {Variation(NoDefaults, {s}, NoDefaults) : s \in {"process", "browser"}}
  \cup {Variation(NoDefaults, {}, "thread" :> <<"7">>),
        Variation(NoDefaults, {"process"}, "thread" :> <<"7">>)}

ConfigFiles ==
  {IniFile(Sections \ x.without, x.opts @@ core, x.dflt) :
     core \in CoreOptions, x \in Variations}

\* the files given to the browser: a valid core and one variation
ValidCore ==
  (<<"user", "name">> :> Raw(TxtAlice)) @@ (<<"user", "password">> :> Raw(TxtSecret))
    @@ (<<"product", "id">> :> Raw(TxtProductId))
    @@ (<<"browser", "type">> :> Raw(TxtChrome))
    @@ (<<"process", "thread">> :> Raw(<<"1">>))
BrowserFiles ==
  {IniFile(Sections \ x.without, x.opts @@ ValidCore, x.dflt) : x \in Variations}

\* the getter calls made by users of the Config object
GetterCalls ==
  {<<"get", "browser", "userAgent", Given(TxtAgent)>>,
   <<"get", "browser", "missingKey", Given(<<"x">>)>>,
   <<"get", "user", "password", NotGiven(<<>>)>>,
   <<"get", "nosection", "name", Given(<<"x">>)>>,
   <<"getboolean", "browser", "headless", Given(TRUE)>>,
   <<"getboolean", "browser", "headless", NotGiven(FALSE)>>,
   <<"getboolean", "user", "name", Given(TRUE)>>,
   <<"getint", "process", "thread", Given(5)>>,
   <<"getint", "process", "thread", NotGiven(0)>>,
   <<"getint", "user", "thread", Given(5)>>,
   <<"getfloat", "process", "interval", Given(Fl(20))>>,
   <<"getfloat", "process", "thread", NotGiven(Fl(0))>>}

\* load, then validate and display in any order
ConfigNext ==
  \/ \E file \in ConfigFiles : Load(file)
  \/ LoadMissing
  \/ ValidateCall
  \/ DisplayCall
  \/ ValidateAndDisplayCall

\* load, then the getters
ConfigGetNext ==
  \/ \E file \in ConfigFiles : Load(file)
  \/ LoadMissing
  \/ \E c \in GetterCalls : GetterCall(c[1], c[2], c[3], c[4])

\* ========================================================================
\* ChromeBrowser (src/browser/chrome.py)
\* ========================================================================
\* constants.Defaults.USER_AGENT (the Chrome 120 string)
DefaultUserAgent == <<"C", "h", "r", "o", "m", "e", "/", "1", "2", "0">>
TxtProfileDir == <<"/", "u">>
TxtWindowSize == <<"1", "9", "2", "0", ",", "1", "0", "8", "0">>

\* options.add_argument: a switch and the text after it
Arg(switch, text) == [switch |-> switch, text |-> text]
Switch(switch) == Arg(switch, <<>>)

\* _add_performance_options, _add_security_options
PerformanceArgs ==
  <<Switch("--disable-gpu"), Switch("--disable-extensions"),
    Switch("--disable-dev-shm-usage"), Switch("--no-sandbox"),
    Switch("--disable-infobars"), Switch("--disable-background-networking"),
    Switch("--no-default-browser-check"), Switch("--disable-translate"),
    Switch("--disable-sync")>>
SecurityArgs ==
  <<Switch("--ignore-certificate-errors"),
    Switch("--ignore-certificate-errors-spki-list"),
    Switch("--ignore-ssl-errors"), Switch("--ignore-ssl-error"),
    Arg("--log-level=", <<"3">>), Switch("--allow-running-insecure-content")>>
\* _add_anti_detection_options: the experimental options set
AntiDetectionOptions == <<"excludeSwitches", "useAutomationExtension", "prefs">>

\* lines 39-58 of setting(): the arguments that depend on the parameters
\* (file: what the Config object read; hasConfig: config is not None)
ProfileArgs(user_data_dir) ==
  IF user_data_dir # <<>>
    THEN <<Arg("--user-data-dir=", user_data_dir),
           Arg("--profile-directory=", <<"D", "e", "f", "a", "u", "l", "t">>)>>
    ELSE <<>>

HeadlessArgs(hasConfig, file) ==
  IF hasConfig /\ GetBoolean(file, "browser", "headless", Given(FALSE)).v
    THEN <<Switch("--headless=new"),
           Arg("user-agent=",
               Get(file, "browser", "userAgent", Given(DefaultUserAgent)).v),
           Arg("--window-size=", TxtWindowSize)>>
    ELSE <<>>

ProxyArgs(hasConfig, file) ==
  IF hasConfig /\ Get(file, "browser", "proxy", Given(<<>>)).v # <<>>
    THEN <<Arg("--proxy-server=", Get(file, "browser", "proxy", Given(<<>>)).v)>>
    ELSE <<>>

NoSession == "none"
Session == "session"
NoDriver == "none"

\* what the except clause of _create_browser does: log the error, raise
OnCreateFailure_Swallow == [pc |-> "inject", errors |-> 1]
OnCreateFailure == [pc |-> "raised", errors |-> 1]

ChromeInit ==
  /\ ch_pc = "idle"
  /\ ch_config = FALSE
  /\ ch_user_data_dir = <<>>
  /\ ch_args = <<>>
  /\ ch_experimental = <<>>
  /\ ch_driver = NoDriver
  /\ ch_browser = NoSession
  /\ ch_ret = NoSession
  /\ ch_raised = "none"
  /\ ch_resolves = 0
  /\ ch_launches = 0
  /\ ch_injections = 0
  /\ ch_errors = 0
  /\ ch_warnings = 0

\* setting(config, log_path, user_data_dir) up to the call of _create_browser:
\* the options are built
Setting(hasConfig, user_data_dir) ==
  /\ ch_pc \in {"idle", "returned", "raised"}
  /\ hasConfig => cfg_pc = "loaded"
  /\ ch_config' = hasConfig
  /\ ch_user_data_dir' = user_data_dir
  /\ ch_args' = ProfileArgs(user_data_dir) \o HeadlessArgs(hasConfig, cfg_file)
                  \o ProxyArgs(hasConfig, cfg_file) \o PerformanceArgs
                  \o SecurityArgs
  /\ ch_experimental' = AntiDetectionOptions
  /\ ch_pc' = "resolve"
  /\ ch_driver' = NoDriver
  /\ ch_browser' = NoSession
  /\ ch_ret' = NoSession
  /\ ch_raised' = "none"
  /\ ch_resolves' = 0
  /\ ch_launches' = 0
  /\ ch_injections' = 0
  /\ ch_errors' = 0
  /\ ch_warnings' = 0
  /\ UNCHANGED notChromeVars

\* _create_browser, the driver: the configured path if it is set and exists,
\* else ChromeDriverManager().install(), which may raise
ResolveDriver(pathExists, installs) ==
  /\ ch_pc = "resolve"
  /\ ch_resolves' = ch_resolves + 1
  /\ LET driver_path == IF ch_config
                          THEN Get(cfg_file, "browser", "driverPath", Given(<<>>)).v
                          ELSE <<>>
     IN  IF driver_path # <<>> /\ pathExists
           THEN /\ ch_driver' = "configured"
                /\ ch_pc' = "launch"
                /\ UNCHANGED <<ch_errors, ch_raised>>
           ELSE IF installs
             THEN /\ ch_driver' = "managed"
                  /\ ch_pc' = "launch"
                  /\ UNCHANGED <<ch_errors, ch_raised>>
             ELSE /\ ch_driver' = NoDriver
                  /\ ch_pc' = OnCreateFailure.pc
                  /\ ch_errors' = ch_errors + OnCreateFailure.errors
                  /\ ch_raised' = "install"
  /\ UNCHANGED <<ch_config, ch_user_data_dir, ch_args, ch_experimental,
                 ch_browser, ch_ret, ch_launches, ch_injections, ch_warnings>>
  /\ UNCHANGED notChromeVars

\* _create_browser, webdriver.Chrome(service=service, options=options)
LaunchBrowser(starts) ==
  /\ ch_pc = "launch"
  /\ ch_launches' = ch_launches + 1
  /\ IF starts
       THEN /\ ch_browser' = Session
            /\ ch_pc' = "inject"
            /\ UNCHANGED <<ch_errors, ch_raised>>
       ELSE /\ ch_browser' = NoSession
            /\ ch_pc' = OnCreateFailure.pc
            /\ ch_errors' = ch_errors + OnCreateFailure.errors
            /\ ch_raised' = "launch"
  /\ UNCHANGED <<ch_config, ch_user_data_dir, ch_args, ch_experimental,
                 ch_driver, ch_ret, ch_resolves, ch_injections, ch_warnings>>
  /\ UNCHANGED notChromeVars

\* _execute_anti_detection_scripts(browser) and `return browser`
InjectScripts(injects) ==
  /\ ch_pc = "inject"
  /\ ch_injections' = ch_injections + 1
  /\ ch_warnings' = ch_warnings + (IF injects THEN 0 ELSE 1)
  /\ ch_ret' = ch_browser
  /\ ch_pc' = "returned"
  /\ UNCHANGED <<ch_config, ch_user_data_dir, ch_args, ch_experimental,
                 ch_driver, ch_browser, ch_raised, ch_resolves, ch_launches,
                 ch_errors>>
  /\ UNCHANGED notChromeVars

ChromeNext ==
  \/ \E file \in BrowserFiles : Load(file)
  \/ \E hasConfig \in BOOLEAN, user_data_dir \in {<<>>, TxtProfileDir} :
       Setting(hasConfig, user_data_dir)
  \/ \E pathExists \in BOOLEAN, installs \in BOOLEAN :
       ResolveDriver(pathExists, installs)
  \/ \E starts \in BOOLEAN : LaunchBrowser(starts)
  \/ \E injects \in BOOLEAN : InjectScripts(injects)

\* ========================================================================
\* setup_logger (src/tools/my_logger.py:60-123)
\* ========================================================================
\* loguru's severity numbers
LevelNo(level) ==
  CASE level = "DEBUG" -> 10
    [] level = "INFO" -> 20
    [] level = "ERROR" -> 40

\* a handler: its id, where it writes and its minimum level
Handler(id, target, level) == [id |-> id, target |-> target, level |-> level]
LogTargets == {"stderr", "all_file", "error_file", "stdout"}

\* logger.remove() with no argument removes every handler
RemoveAll_Keep(sinks) == sinks
RemoveAll(sinks) == {}

\* how many handlers of each target emit a message of a level
Delivered(sinks, level) ==
  [t \in LogTargets |->
     Cardinality({h \in sinks : h.target = t /\ LevelNo(h.level) <= LevelNo(level)})]

\* loguru starts with one handler, id 0, on stderr
LoggerInit ==
  /\ lg_sinks = {Handler(0, "stderr", "DEBUG")}
  /\ lg_next_id = 1
  /\ lg_pc = "initial"
  /\ lg_debug = FALSE
  /\ lg_calls = 0
  /\ lg_dir = FALSE
  /\ lg_delivered = [t \in LogTargets |-> 0]

\* log_level = "DEBUG" if debug else "INFO"
ConsoleLevel(debug) == IF debug THEN "DEBUG" ELSE "INFO"

\* the handlers after logger.remove() and the three logger.add calls
ThreeSinks(sinks, next_id, debug) ==
  RemoveAll(sinks)
    \cup {Handler(next_id, "all_file", "DEBUG"),
          Handler(next_id + 1, "error_file", "ERROR"),
          Handler(next_id + 2, "stdout", ConsoleLevel(debug))}

\* setup_logger(debug), every step succeeding, with its closing logger.info
SetupLogger(debug) ==
  /\ lg_calls < MaxSetupCalls
  /\ lg_calls' = lg_calls + 1
  /\ lg_dir' = TRUE
  /\ lg_sinks' = ThreeSinks(lg_sinks, lg_next_id, debug)
  /\ lg_next_id' = lg_next_id + 3
  /\ lg_debug' = debug
  /\ lg_delivered' = Delivered(ThreeSinks(lg_sinks, lg_next_id, debug), "INFO")
  /\ lg_pc' = "returned"
  /\ UNCHANGED notLoggerVars

\* setup_logger(debug) when os.makedirs raises ("makedirs": nothing has been
\* touched) or when opening a log file raises in logger.add ("all_file": the
\* handlers are removed; "error_file": the first file sink is in place)
SetupLoggerFails(debug, step) ==
  /\ lg_calls < MaxSetupCalls
  /\ lg_calls' = lg_calls + 1
  /\ lg_debug' = debug
  /\ lg_pc' = "raised"
  /\ CASE step = "makedirs" ->
            UNCHANGED <<lg_dir, lg_sinks, lg_next_id>>
       [] step = "all_file" ->
            /\ lg_dir' = TRUE
            /\ lg_sinks' = RemoveAll(lg_sinks)
            /\ UNCHANGED lg_next_id
       [] OTHER ->
            /\ lg_dir' = TRUE
            /\ lg_sinks' = RemoveAll(lg_sinks)
                             \cup {Handler(lg_next_id, "all_file", "DEBUG")}
            /\ lg_next_id' = lg_next_id + 1
  /\ UNCHANGED lg_delivered
  /\ UNCHANGED notLoggerVars

\* a message logged by the program
LogMessage(level) ==
  /\ lg_delivered' = Delivered(lg_sinks, level)
  /\ UNCHANGED <<lg_sinks, lg_next_id, lg_pc, lg_debug, lg_calls, lg_dir>>
  /\ UNCHANGED notLoggerVars

LoggerNext ==
  \/ \E debug \in BOOLEAN : SetupLogger(debug)
  \/ \E debug \in BOOLEAN, step \in {"makedirs", "all_file", "error_file"} :
       SetupLoggerFails(debug, step)
  \/ \E level \in {"DEBUG", "INFO", "ERROR"} : LogMessage(level)

\* ========================================================================
\* ProgressManager (src/tools/my_logger.py:126-158)
\* ========================================================================
\* None, and the n-th Progress / Live object made (made together, same n)
NoObject == 0
\* Progress.add_task on a new Progress returns task id 0
FirstTaskId == 0
NoTask == -1

ProgressInit ==
  /\ pm_progress = NoObject
  /\ pm_live = NoObject
  /\ pm_task_id = NoTask
  /\ pm_lives = <<>>
  /\ pm_bars = <<>>
  /\ pm_console = {}
  /\ pm_op = "none"
  /\ pm_raised = "none"
  /\ pm_touched = NoObject

\* the Live objects that are started
StartedLives == {l \in 1..Len(pm_lives) : pm_lives[l] = "started"}

\* start_countdown(total_seconds, description).  Live.start() registers the
\* display with the console: when the console already has a live display,
\* rich either raises LiveError (nests = FALSE) or starts it nested
\* (nests = TRUE), depending on its version.
StartCountdown(total_seconds, nests) ==
  /\ Len(pm_lives) < MaxCountdowns
  /\ pm_op' = "start"
  /\ pm_touched' = NoObject
  /\ LET n == Len(pm_lives) + 1
     IN  /\ pm_progress' = n
         /\ pm_bars' = Append(pm_bars, [total |-> total_seconds, completed |-> 0])
         /\ pm_task_id' = FirstTaskId
         /\ pm_live' = n
         /\ IF pm_console = {} \/ nests
              THEN /\ pm_lives' = Append(pm_lives, "started")
                   /\ pm_console' = pm_console \cup {n}
                   /\ pm_raised' = "none"
              ELSE /\ pm_lives' = Append(pm_lives, "created")
                   /\ pm_raised' = "LiveError"
                   /\ UNCHANGED pm_console
  /\ UNCHANGED notProgressVars

\* update_countdown(completed)
UpdateCountdown(completed) ==
  /\ pm_op' = "update"
  /\ pm_raised' = "none"
  /\ IF pm_progress # NoObject /\ pm_task_id # NoTask
       THEN /\ pm_bars' = [pm_bars EXCEPT ![pm_progress].completed = completed]
            /\ pm_touched' = pm_progress
       ELSE /\ UNCHANGED pm_bars
            /\ pm_touched' = NoObject
  /\ UNCHANGED <<pm_progress, pm_live, pm_task_id, pm_lives, pm_console>>
  /\ UNCHANGED notProgressVars

\* stop_countdown(); Live.stop() does nothing on a display that is not
\* started
StopCountdown ==
  /\ pm_op' = "stop"
  /\ pm_raised' = "none"
  /\ pm_touched' = NoObject
  /\ IF pm_live # NoObject
       THEN /\ pm_lives' = [pm_lives EXCEPT ![pm_live] =
                              IF @ = "started" THEN "stopped" ELSE @]
            /\ pm_console' = IF pm_lives[pm_live] = "started"
                               THEN pm_console \ {pm_live} ELSE pm_console
            /\ pm_progress' = NoObject
            /\ pm_task_id' = NoTask
       ELSE UNCHANGED <<pm_lives, pm_console, pm_progress, pm_task_id>>
  /\ UNCHANGED <<pm_live, pm_bars>>
  /\ UNCHANGED notProgressVars

ProgressNext ==
  \/ \E total_seconds \in {10, 60}, nests \in BOOLEAN :
       StartCountdown(total_seconds, nests)
  \/ \E completed \in {1, 5} : UpdateCountdown(completed)
  \/ StopCountdown

\* ========================================================================
\* get_remaining_parts() over the remaining times get_remaining_ms() can
\* return (src/tools/time_utils.py:158-179)
\* ========================================================================
\* a remaining time: an int, or (after a successful sync) a float that is
\* whole or ends in .5
RemainingTimes ==
  {[ty |-> ty, v2 |-> 2 * (days * MsPerDay + hours * MsPerHour
                            + minutes * MsPerMinute + seconds * MsPerSecond
                            + ms) + half] :
     days \in 0..MaxDays, hours \in {0, 1, 23}, minutes \in {0, 1, 59},
     seconds \in {0, 1, 59}, ms \in {0, 500, 999},
     ty \in {"int", "float"}, half \in {0, 1}}

PartsInit ==
  /\ rp_pc = "idle"
  /\ rp_remaining = PyInt(0)
  /\ rp_parts = GetRemainingParts(PyInt(0))

\* get_remaining_parts() when get_remaining_ms() returns r
RemainingPartsCall(r) ==
  /\ rp_pc = "idle"
  /\ r.ty = "int" => r.v2 % 2 = 0
  /\ rp_pc' = "returned"
  /\ rp_remaining' = r
  /\ rp_parts' = GetRemainingParts(r)
  /\ UNCHANGED notPartsVars

PartsNext ==
  \E r \in RemainingTimes : RemainingPartsCall(r)

\* ========================================================================
\* CountdownTimer.is_time_to_start as a call, and the countdown of a timer
\* whose TimeSync was never synchronised (src/tools/time_utils.py:140-222)
\* ========================================================================
StartInit ==
  /\ its_pc = "idle"
  /\ its_ret = FALSE

\* is_time_to_start(): return self.get_remaining_ms() <= 0
IsTimeToStartCall ==
  /\ TimerIdle
  /\ its_ret' = IsTimeToStart
  /\ its_pc' = "returned"
  /\ UNCHANGED notStartVars

\* a fresh CountdownTimer: set_target, is_time_to_start and wait_until_ready
\* in any order
StartNext ==
  \/ \E t \in {ClockStart - 500, ClockStart + 1500} : SetTarget(t)
  \/ IsTimeToStartCall
  \/ \E adv \in {0, DefaultAdvanceMs} : WaitCall(adv)
  \/ WaitIter
  \/ WaitLog
  \/ WaitSleep

\* ========================================================================
\* wait_until_ready as a loop that keeps running: the interpreter executes
\* the next statement of a call in progress, and time.sleep returns
\* (src/tools/time_utils.py:200-222)
\* ========================================================================
WaitNext ==
  \/ SyncCall
  \/ SyncRound(0, "raise", 0)
  \/ SyncRound(3, "ok", clock - 10)
  \/ SyncSleep
  \/ SyncFinish
  \/ SetTarget(MaxClock - 2000)
  \/ \E adv \in {-1, 0, DefaultAdvanceMs} :
       target_time # PyNone /\ WaitCall(adv)
  \/ WaitIter
  \/ WaitLog
  \/ WaitSleep

WaitFairness ==
  /\ WF_vars(WaitIter)
  /\ WF_vars(WaitLog)
  /\ WF_vars(WaitSleep)

\* ------------------------------------------------------------------------
\* Initial state and specifications
\* ------------------------------------------------------------------------
Init ==
  /\ RetryInit
  /\ TimeSyncInit
  /\ CountdownInit
  /\ CookieInit
  /\ StatsInit
  /\ ScopedTimerInit
  /\ ConfigInit
  /\ ChromeInit
  /\ LoggerInit
  /\ ProgressInit
  /\ PartsInit
  /\ StartInit

SpecRetry == Init /\ [][RetryNext]_vars

SpecSync == Init /\ [][SyncNext]_vars

SpecResync == Init /\ [][ResyncNext]_vars

SpecCountdown == Init /\ [][CountdownNext]_vars

SpecCookie == Init /\ [][CookieNext]_vars

SpecCookieSeq == Init /\ [][CookieSeqNext]_vars

SpecStats == Init /\ [][StatsNext]_vars

SpecScopedTimer == Init /\ [][ScopedTimerNext]_vars

SpecConfig == Init /\ [][ConfigNext]_vars

SpecConfigGet == Init /\ [][ConfigGetNext]_vars

SpecChrome == Init /\ [][ChromeNext]_vars

SpecLogger == Init /\ [][LoggerNext]_vars

SpecProgress == Init /\ [][ProgressNext]_vars

SpecParts == Init /\ [][PartsNext]_vars

SpecStart == Init /\ [][StartNext]_vars

SpecWait == Init /\ [][WaitNext]_vars /\ WaitFairness

\* ------------------------------------------------------------------------
\* C1: a retry(max_attempts = N >= 1) wrapper around a function that raises
\* a filtered exception on its first k calls and then succeeds returns the
\* success value after exactly k+1 invocations when k < N, and otherwise
\* invokes the function exactly N times and re-raises the exception of the
\* N-th invocation.
\* ------------------------------------------------------------------------
RetryContract ==
  (retry_pc \in {"returned", "raised"} /\ max_attempts >= 1 /\ exc_in_filter)
    => IF fail_first < max_attempts
         THEN /\ retry_pc = "returned"
              /\ retry_result = SuccessValue
              /\ call_count = fail_first + 1
         ELSE /\ retry_pc = "raised"
              /\ call_count = max_attempts
              /\ retry_raised = FuncException(max_attempts, TRUE)

RetryContractWitness ==
  /\ retry_pc = "returned"
  /\ max_attempts = 3
  /\ fail_first = 2
  /\ exc_in_filter
  /\ call_count = 3
  /\ retry_result = SuccessValue
\* ------------------------------------------------------------------------
\* C2: wait_until_ready(advance_ms) returns only when the remaining time read
\* in that iteration is <= advance_ms; in every iteration where remaining >
\* advance_ms it does not return but sleeps 10 s if remaining > 60000 ms,
\* else 1 s if > 10000 ms, else 0.1 s if > 1000 ms, else 1 ms, with a status
\* log in the first three tiers and none in the last.
\* ------------------------------------------------------------------------
TierSleepMs(r) ==
  IF r.v2 > 2 * 60000 THEN 10000
  ELSE IF r.v2 > 2 * 10000 THEN 1000
  ELSE IF r.v2 > 2 * 1000 THEN 100
  ELSE 1

WaitUntilReadyStep ==
  /\ (wait_pc = "loop" /\ wait_pc' = "returned") => remaining'.v2 <= 2 * advance_ms
  /\ (wait_pc = "loop" /\ wait_pc' # "returned") => remaining'.v2 > 2 * advance_ms
  /\ (wait_pc = "log") =>
        /\ remaining.v2 > 2 * 1000
        /\ wait_pc' = "sleep"
        /\ status_logged'
  /\ (wait_pc = "sleep") =>
        /\ wait_pc' = "loop"
        /\ clock' - clock = TierSleepMs(remaining)
        /\ status_logged <=> remaining.v2 > 2 * 1000

WaitUntilReadyContract == [][WaitUntilReadyStep]_vars

\* ------------------------------------------------------------------------
\* C3: get_remaining_ms() is never negative; with a target set, once the
\* server time (local clock minus adopted offset) is at or past the target
\* it is exactly 0 and is_time_to_start() is true, and while the server time
\* is strictly before the target is_time_to_start() is false.
\* ------------------------------------------------------------------------
RemainingFloor ==
  /\ GetRemainingMs.v2 >= 0
  /\ remaining.v2 >= 0
  /\ target_time # PyNone =>
       /\ 2 * clock - time_diff.v2 >= target_time.v2
            => (GetRemainingMs.v2 = 0 /\ IsTimeToStart)
       /\ 2 * clock - time_diff.v2 < target_time.v2
            => ~IsTimeToStart

RemainingFloorWitness ==
  /\ wait_pc = "returned"
  /\ target_time # PyNone
  /\ time_diff.ty = "float"
  /\ time_diff.v2 # 0
  /\ 2 * clock - time_diff.v2 > target_time.v2
  /\ remaining.v2 = 0
  /\ IsTimeToStart

\* ------------------------------------------------------------------------
\* C4: when 1 <= n <= 3 sampling rounds of sync() succeed, the samples are
\* ordered by diff and the adopted (server_ts, local_ts, diff) is the median
\* sample taken whole; for diffs {-50, 10, 1000} the adopted diff is 10; the
\* adopted diff is the offset used afterwards and the diff returned.
\* ------------------------------------------------------------------------
Adopted == Sample(server_timestamp, local_timestamp, time_diff)

SampleDiffs == {samples[i].diff.v2 : i \in 1..Len(samples)}

AllRoundsFailed ==
  /\ round_kinds # <<>>
  /\ \A i \in 1..Len(round_kinds) : round_kinds[i] \in {"raise", "not_ok", "no_field"}

DegradedFallback ==
  /\ sync_pc \in {"idle", "round", "sleep", "returned"}
  /\ Len(round_kinds) <= 3
  /\ (sync_pc = "returned" /\ AllRoundsFailed) =>
       /\ Len(round_kinds) = 3
       /\ fallback_errors = 1
       /\ sync_ret.server_ts = PyInt(clock)
       /\ sync_ret.local_ts = sync_ret.server_ts
       /\ sync_ret.diff = PyInt(0)

DegradedFallbackWitness ==
  /\ sync_pc = "returned"
  /\ round_kinds = <<"raise", "not_ok", "no_field">>
  /\ fallback_errors = 1
  /\ sync_ret = Sample(PyInt(clock), PyInt(clock), PyInt(0))
\* ------------------------------------------------------------------------
\* C6: write and delete change the cookie file only while holding the
\* instance's lock, so no delete or write takes effect while another thread
\* is inside the critical section of write or read.
\* ------------------------------------------------------------------------
MutationUnderLock ==
  cookie_file' # cookie_file =>
    /\ \E t \in Threads : cookie_lock = t /\ ck_pc'[t] # ck_pc[t]
    /\ \A u \in Threads : InCriticalSection(u) => ck_pc'[u] # ck_pc[u]

CookieLockDiscipline == [][MutationUnderLock]_vars

\* ------------------------------------------------------------------------
\* C7: a successful write(L) followed, with no write or delete in between,
\* by read() returns a list equal to L; delete() followed by read() returns
\* None; read() with no cookie file returns None without raising.
\* ------------------------------------------------------------------------
WriteReadRoundTrip ==
  \A t \in Threads :
    (ck_pc[t] = "done" /\ ck_op[t] = "read") =>
      /\ (ck_last.op = "write_ok" /\ ck_raised[t] # "OSError")
           => ck_ret[t] = RetList(ck_last.v)
      /\ ck_last.op \in {"delete_ok", "none"} => ck_ret[t] = RetNone
      /\ ck_saw[t] = "absent" => (ck_ret[t] = RetNone /\ ck_raised[t] = "none")

WriteReadRoundTripWitness ==
  \E t \in Threads :
    /\ ck_pc[t] = "done"
    /\ ck_op[t] = "read"
    /\ ck_last.op = "write_ok"
    /\ Len(ck_last.v) = 2
    /\ ck_last.v[1] # ck_last.v[2]
    /\ ck_ret[t] = RetList(ck_last.v)

\* ------------------------------------------------------------------------
\* C8: write, read and delete never let an exception out: a failure becomes
\* False (write, delete) or None (read); delete() returns True both when it
\* removed the file and when the file was already absent.
\* ------------------------------------------------------------------------
CookieFailuresAreValues ==
  \A t \in Threads :
    /\ ck_pc[t] \in {"idle", "w_lock", "w_open", "w_dump", "w_unlock", "r_lock",
                     "r_exists", "r_open", "d_exists", "d_remove", "done"}
    /\ ck_pc[t] = "done" =>
         /\ cookie_lock # t
         /\ ck_op[t] = "write" => ck_ret[t] = RetBool(ck_raised[t] = "none")
         /\ ck_op[t] = "read" =>
              /\ ck_ret[t].kind \in {"None", "list"}
              /\ ck_raised[t] # "none" => ck_ret[t] = RetNone
         /\ ck_op[t] = "delete" =>
              /\ ck_ret[t] = RetBool(ck_raised[t] = "none")
              /\ ck_saw[t] = "absent" => ck_ret[t] = RetBool(TRUE)

CookieFailuresAreValuesWitness ==
  \E t \in Threads, u \in Threads :
    /\ t # u
    /\ ck_pc[t] = "done" /\ ck_op[t] = "delete"
    /\ ck_pc[u] = "done" /\ ck_op[u] = "delete"
    /\ ck_saw[t] = "present" /\ ck_ret[t] = RetBool(TRUE)
    /\ ck_saw[u] = "absent" /\ ck_ret[u] = RetBool(TRUE)
\* ------------------------------------------------------------------------
\* C9: under any interleaving of start(), record_attempt(), record_error()
\* and record_success() calls from several threads, attempt_count is the
\* number of completed record_attempt calls and error_count the number of
\* completed record_error calls since the last start() (no lost update),
\* and success is true iff record_success was called since then; the summary
\* reports these (e.g. 3 attempts, 1 error, success).
\* ------------------------------------------------------------------------
StatsNoLostUpdate ==
  stat_lock = NoThread =>
    /\ attempt_count = done_attempts
    /\ error_count = done_errors
    /\ success <=> success_recorded
    /\ Summary = [result |-> IF success_recorded THEN "success" ELSE "failure",
                  attempts |-> done_attempts,
                  errors |-> done_errors]

StatsNoLostUpdateWitness ==
  /\ \A t \in Threads : st_pc[t] = "idle"
  /\ start_time = "set"
  /\ done_attempts = 3
  /\ done_errors = 1
  /\ success_recorded
  /\ Summary = [result |-> "success", attempts |-> 3, errors |-> 1]

\* ------------------------------------------------------------------------
\* C10: the scoped timer logs the elapsed time with its description on
\* every exit of the enclosed block, whether the block completes or raises.
\* ------------------------------------------------------------------------
TimerLogsOnEveryExit ==
  tm_pc = "exited" =>
    tm_log = [description |-> tm_description, elapsed |-> tm_clock - tm_start]
\* ------------------------------------------------------------------------
\* C11: validate() returns one error for each violated condition among
\* "user.name is non-empty", "user.password is non-empty", "product.id is
\* non-empty", "browser.type is chrome, firefox, edge or safari" and
\* "process.thread >= 1", in that order and independently of each other (so
\* the list is empty iff all five hold); the browser-type error names the
\* type; nothing else (empty color or version, headless without user agent,
\* thread > 20, interval < 0.001) adds an error.
ValidateConditions == <<"name", "password", "product_id", "browser_type", "thread">>

ConditionViolated(app, kind) ==
  CASE kind = "name" -> app.user.name = <<>>
    [] kind = "password" -> app.user.password = <<>>
    [] kind = "product_id" -> app.product.id = <<>>
    [] kind = "browser_type" ->
         app.browser.type \notin {TxtChrome, TxtFirefox, TxtEdge, TxtSafari}
    [] OTHER -> ~(app.process.thread >= 1)

ExpectedErrorKinds(app) ==
  SelectSeq(ValidateConditions, LAMBDA kind : ConditionViolated(app, kind))

Validated == cfg_pc = "loaded" /\ cfg_op \in {"validate", "validate_and_display"}

ValidateErrors ==
  Validated =>
    /\ Len(cfg_errors) = Len(ExpectedErrorKinds(cfg_before))
    /\ \A i \in 1..Len(cfg_errors) :
         /\ cfg_errors[i].kind = ExpectedErrorKinds(cfg_before)[i]
         /\ cfg_errors[i].kind = "browser_type" =>
              cfg_errors[i].detail = cfg_before.browser.type

\* all five conditions violated at once by a file that also has warnings
ValidateErrorsWitness ==
  /\ Validated
  /\ Len(cfg_errors) = 5
  /\ cfg_warnings # <<>>

\* ------------------------------------------------------------------------
\* C12 (as amended): the constructor leaves process.thread as read from the
\* file (thread = 50 stays 50, no warning); it is validate() that, for a
\* thread > 20, sets it to 20 with a warning and no thread error, and for a
\* thread < 1 returns a thread error and leaves the value unchanged.
ThreadText(text) ==
  /\ "process" \in cfg_file.sections
  /\ cfg_file.options[<<"process", "thread">>] = Raw(text)

ThreadClampOnValidate ==
  /\ (cfg_pc = "loaded" /\ cfg_op = "load" /\ ThreadText(<<"5", "0">>)) =>
       app_config.process.thread = 50 /\ cfg_warnings = <<>>
  /\ (Validated /\ cfg_before.process.thread > 20) =>
       /\ app_config.process.thread = 20
       /\ \E i \in 1..Len(cfg_warnings) : cfg_warnings[i] = "thread"
       /\ \A i \in 1..Len(cfg_errors) : cfg_errors[i].kind # "thread"
  /\ (Validated /\ cfg_before.process.thread < 1) =>
       /\ \E i \in 1..Len(cfg_errors) : cfg_errors[i].kind = "thread"
       /\ app_config.process.thread = cfg_before.process.thread

ThreadClampOnValidateWitness ==
  /\ Validated
  /\ ThreadText(<<"5", "0">>)
  /\ cfg_before.process.thread = 50
  /\ app_config.process.thread = 20

\* C12 as stated: once a file with thread = 50 is loaded, the thread is 20
\* and a warning has been given
ThreadClampOnLoad ==
  (cfg_pc = "loaded" /\ ThreadText(<<"5", "0">>)) =>
    app_config.process.thread = 20 /\ cfg_warnings # <<>>

\* ------------------------------------------------------------------------
\* C13: after load, an operation leaves every AppConfig field but
\* process.thread and process.interval unchanged; thread changes only in
\* validate and only from a value > 20 to 20; interval changes only in
\* validate and only from a value < 0.001 to 0.001, with a warning; so after
\* validate, interval >= 0.001.
SameButClamped(a, b) ==
  [a EXCEPT !.process.thread = 0, !.process.interval = Fl(0)]
    = [b EXCEPT !.process.thread = 0, !.process.interval = Fl(0)]

ConfigFrame ==
  (cfg_pc = "loaded" /\ cfg_op # "load") =>
    /\ SameButClamped(app_config, cfg_before)
    /\ app_config.process.thread # cfg_before.process.thread =>
         /\ Validated
         /\ cfg_before.process.thread > 20
         /\ app_config.process.thread = 20
    /\ app_config.process.interval # cfg_before.process.interval =>
         /\ Validated
         /\ FloatLt(cfg_before.process.interval, MIN_INTERVAL)
         /\ app_config.process.interval = MIN_INTERVAL
         /\ \E i \in 1..Len(cfg_warnings) : cfg_warnings[i] = "interval"
    /\ Validated => FloatGe(app_config.process.interval, MIN_INTERVAL)

\* ------------------------------------------------------------------------
\* C14: get, getboolean, getint and getfloat never raise; when the section
\* or the option is missing from the file, or the text cannot be read as the
\* type asked for, they return the default passed by the caller; so every
\* field of a loaded AppConfig whose key is missing or malformed has its
\* documented default.
MissingFromFile(file, section, option) ==
  \/ section \notin file.sections
  \/ /\ ~(<<section, option>> \in Keys /\ file.options[<<section, option>>].has)
     /\ option \notin DOMAIN file.defaults

Malformed(file, getter, section, option) ==
  /\ ~MissingFromFile(file, section, option)
  /\ LET text == ConfigParserGet(file, section, option).text
     IN  CASE getter = "getint" -> ~ParseInt(text).ok
           [] getter = "getfloat" -> ~ParseFloat(text).ok
           [] getter = "getboolean" -> Lower(text) \notin TrueTexts \cup FalseTexts
           [] OTHER -> FALSE

Unusable(file, getter, section, option) ==
  MissingFromFile(file, section, option) \/ Malformed(file, getter, section, option)

GettersFailSoft ==
  /\ (cfg_pc = "loaded" /\ cfg_op = "getter") =>
       /\ cfg_ret.raised = "none"
       /\ (Unusable(cfg_file, cfg_ret.kind, cfg_ret.section, cfg_ret.option)
             /\ cfg_ret.d.given) => cfg_ret.v = cfg_ret.d.v
  /\ cfg_pc = "loaded" =>
       /\ Unusable(cfg_file, "getint", "process", "thread") =>
            app_config.process.thread = 1
       /\ Unusable(cfg_file, "getfloat", "process", "interval") =>
            app_config.process.interval = Fl(10)
       /\ Unusable(cfg_file, "getboolean", "browser", "headless") =>
            app_config.browser.headless = FALSE
       /\ Unusable(cfg_file, "get", "browser", "type") =>
            app_config.browser.type = TxtChrome
       /\ Unusable(cfg_file, "get", "product", "payment") =>
            app_config.product.payment = TxtFullPayment
       /\ Unusable(cfg_file, "get", "user", "password") =>
            app_config.user.password = <<>>
       /\ Unusable(cfg_file, "getint", "process", "retryTimes") =>
            app_config.process.retry_times = 3
       /\ Unusable(cfg_file, "getint", "process", "timeout") =>
            app_config.process.timeout = 30
       /\ Unusable(cfg_file, "getboolean", "notify", "enableSound") =>
            app_config.notify.enable_sound = TRUE

\* getint("process", "thread", 5) on a file with thread = abc returned 5
GettersFailSoftWitness ==
  /\ cfg_pc = "loaded"
  /\ cfg_op = "getter"
  /\ cfg_ret.kind = "getint"
  /\ cfg_ret.section = "process"
  /\ ThreadText(<<"a", "b", "c">>)
  /\ cfg_ret.v = 5

\* ------------------------------------------------------------------------
\* C15: in setting(), a failure to resolve the driver or to launch the
\* browser is logged once as an error and raised to the caller, with no
\* second attempt, no script injection and no session returned; a failure of
\* the script injection is logged as a warning, is not raised, and setting()
\* still returns the launched session.
LaunchFailureIsFatal ==
  /\ ch_resolves <= 1 /\ ch_launches <= 1
  /\ ch_injections > 0 => ch_browser = Session
  /\ ch_pc = "raised" =>
       /\ ch_raised \in {"install", "launch"}
       /\ ch_errors = 1
       /\ ch_injections = 0
       /\ ch_ret = NoSession
  /\ ch_pc = "returned" =>
       /\ ch_raised = "none"
       /\ ch_errors = 0
       /\ ch_injections = 1
       /\ ch_warnings <= 1
       /\ ch_ret = Session

\* setting() returned the session although the injection failed
LaunchFailureIsFatalWitness ==
  /\ ch_pc = "returned"
  /\ ch_warnings = 1
  /\ ch_ret = Session

\* ------------------------------------------------------------------------
\* C19: with headless enabled, the user agent given to the browser is the
\* configured browser.userAgent when that is non-empty and the default
\* Chrome 120 string otherwise (also when the key is present but empty);
\* when headless is off or there is no config, no user-agent and no
\* window-size argument is added.
ArgsWith(switch) == {i \in 1..Len(ch_args) : ch_args[i].switch = switch}

HeadlessUserAgent ==
  ch_pc # "idle" =>
    IF ch_config /\ app_config.browser.headless
      THEN /\ \E i \in ArgsWith("user-agent=") :
                ch_args[i].text = IF app_config.browser.user_agent # <<>>
                                    THEN app_config.browser.user_agent
                                    ELSE DefaultUserAgent
           /\ ArgsWith("--window-size=") # {}
      ELSE ArgsWith("user-agent=") = {} /\ ArgsWith("--window-size=") = {}

\* ------------------------------------------------------------------------
\* C16: whenever the most recent setup_logger call has completed, exactly
\* three sinks are installed, whatever was installed before: the all-levels
\* file (DEBUG), the error file (ERROR) and the console, whose level is
\* DEBUG iff that call passed debug = true and INFO otherwise; so its closing
\* INFO message is written once to the console and once to the all-levels
\* file.
SinksAt(target) == {h \in lg_sinks : h.target = target}

SetupLoggerResets ==
  lg_pc = "returned" =>
    /\ Cardinality(lg_sinks) = 3
    /\ \E h \in lg_sinks : h.target = "all_file" /\ h.level = "DEBUG"
    /\ \E h \in lg_sinks : h.target = "error_file" /\ h.level = "ERROR"
    /\ \E h \in lg_sinks :
         h.target = "stdout" /\ h.level = (IF lg_debug THEN "DEBUG" ELSE "INFO")
    /\ \A t \in LogTargets : lg_delivered[t] <= 1

\* a third call, with debug = true, after which a DEBUG message was logged
SetupLoggerResetsWitness ==
  /\ lg_pc = "returned"
  /\ lg_calls = 3
  /\ lg_debug
  /\ lg_delivered["stdout"] = 1
  /\ lg_delivered["error_file"] = 0

\* ------------------------------------------------------------------------
\* C17: for one ProgressManager, under any sequence of start_countdown,
\* update_countdown and stop_countdown calls, at most one live display is
\* running; update_countdown touches a bar only when one is active (never
\* before the first start or after stop_countdown); after stop_countdown no
\* live display of the manager is running.
SingleCountdown ==
  /\ Cardinality(StartedLives) <= 1
  /\ pm_op = "update" /\ pm_touched # NoObject => pm_progress = pm_touched
  /\ pm_op = "update" /\ pm_progress = NoObject => pm_touched = NoObject
  /\ pm_op = "stop" => StartedLives = {}

\* ------------------------------------------------------------------------
\* C18: for a remaining time r >= 0, get_remaining_parts returns
\* (d, h, m, s, ms) with d*86400000 + h*3600000 + m*60000 + s*1000 + ms = r,
\* 0 <= h < 24, 0 <= m < 60, 0 <= s < 60 and 0 <= ms < 1000; for
\* r = 90,061,500 it returns (1, 1, 1, 1, 500).  (Numbers are compared by
\* twice their value.)
RemainingPartsSum ==
  rp_pc = "returned" =>
    /\ rp_parts.days.v2 * 86400000 + rp_parts.hours.v2 * 3600000
         + rp_parts.minutes.v2 * 60000 + rp_parts.seconds.v2 * 1000
         + rp_parts.milliseconds.v2 = rp_remaining.v2
    /\ rp_parts.days.v2 >= 0
    /\ 0 <= rp_parts.hours.v2 /\ rp_parts.hours.v2 < 2 * 24
    /\ 0 <= rp_parts.minutes.v2 /\ rp_parts.minutes.v2 < 2 * 60
    /\ 0 <= rp_parts.seconds.v2 /\ rp_parts.seconds.v2 < 2 * 60
    /\ 0 <= rp_parts.milliseconds.v2 /\ rp_parts.milliseconds.v2 < 2 * 1000
    /\ rp_remaining.v2 = 2 * 90061500 =>
         /\ rp_parts.days.v2 = 2 * 1 /\ rp_parts.hours.v2 = 2 * 1
         /\ rp_parts.minutes.v2 = 2 * 1 /\ rp_parts.seconds.v2 = 2 * 1
         /\ rp_parts.milliseconds.v2 = 2 * 500

RemainingPartsSumWitness ==
  /\ rp_pc = "returned"
  /\ rp_remaining = PyInt(90061500)
  /\ rp_parts.days = PyInt(1)
  /\ rp_parts.milliseconds = PyInt(500)

\* ------------------------------------------------------------------------
\* C20: after any sequence of sync() calls, the diff returned by the most
\* recent sync() is the offset get_server_time() subtracts from the local
\* clock; so after a sync() that falls back to the degraded triple (diff 0),
\* get_server_time() is the local clock reading, whatever an earlier sync()
\* adopted.
LastSyncFellBack == sync_pc = "returned" /\ fallback_errors > 0

ReturnedDiffIsOffset ==
  sync_pc = "returned" =>
    /\ sync_ret.diff.v2 = time_diff.v2
    /\ GetServerTime.v2 = PySub(LocalTime, sync_ret.diff).v2
    /\ LastSyncFellBack => GetServerTime.v2 = LocalTime.v2

\* ------------------------------------------------------------------------
\* C21: for every max_attempts, 0 and negative values included, the retry
\* wrapper invokes the wrapped function at least once, and an exception that
\* leaves the wrapper was raised by the wrapped function: an unfiltered
\* exception leaves after that single invocation with no sleep, and the
\* wrapper raises no error of its own making.
RaisedByWrappedFunction ==
  /\ retry_raised.call \in 1..call_count
  /\ retry_raised.kind \in {"filtered", "unfiltered"}

RetryAlwaysInvokes ==
  /\ retry_pc \in {"returned", "raised"} => call_count >= 1
  /\ retry_pc = "raised" => RaisedByWrappedFunction
  /\ (retry_pc = "raised" /\ retry_raised.kind = "unfiltered")
       => retry_raised.call = call_count /\ retry_sleeps = call_count - 1

\* ------------------------------------------------------------------------
\* C22: a CountdownTimer on which set_target was never called does not
\* report that it is time to start: is_time_to_start() returns false, and
\* wait_until_ready() returns only once a target has been set and reached.
TargetNeverSet == target_time = PyNone

UnsetTargetNotReady ==
  /\ (its_pc = "returned" /\ TargetNeverSet) => ~its_ret
  /\ wait_pc = "returned" =>
       /\ ~TargetNeverSet
       /\ PyLe(remaining, advance_ms)

\* ------------------------------------------------------------------------
\* C23: with a target set and a clock that moves on by each sleep,
\* wait_until_ready(advance_ms) eventually returns for every advance_ms >= 0,
\* and the sleep chosen in an iteration is no longer than the remaining time
\* read in that iteration; for advance_ms < 0 it never returns.
SleepWithinRemaining ==
  (wait_pc = "sleep" /\ wait_pc' = "loop" /\ advance_ms >= 0)
    => 2 * (clock' - clock) <= remaining.v2

WaitInProgress ==
  wait_pc = "loop" /\ advance_ms >= 0 /\ target_time # PyNone

NegativeAdvanceNeverReturns == advance_ms < 0 => wait_pc # "returned"

WaitTerminates ==
  /\ [][SleepWithinRemaining]_vars
  /\ []NegativeAdvanceNeverReturns
  /\ (WaitInProgress ~> wait_pc = "returned")

\* ------------------------------------------------------------------------
\* C24: a write that fails (returns False) leaves the stored cookies
\* unchanged: if an earlier write(L) succeeded, then after any failed write
\* a following read() still returns L.
ReadAfterFailedWrite(t) ==
  /\ ck_pc[t] = "done"
  /\ ck_op[t] = "read"
  /\ ck_last.op = "write_failed"
  /\ ck_stored.has
  /\ ck_raised[t] # "OSError"

FailedWriteKeepsCookies ==
  \A t \in Threads : ReadAfterFailedWrite(t) => ck_ret[t] = RetList(ck_stored.v)

====
